---- MODULE Spec2Model ----
(***************************************************************************)
(* A model of the engine facade of dev-asm/music (StrudelEngine): the      *)
(* sample-bank registry and its loads, the active-range multiset that      *)
(* drives source highlighting, and the bootstrap of one or more engine     *)
(* instances over the process-wide module cache.                           *)
(*                                                                         *)
(* Strings are sequences of one-character strings, so that the slug,       *)
(* label and key derivations are computed the way the code computes them.  *)
(***************************************************************************)
EXTENDS Integers, Sequences, FiniteSets, TLC

(***************************************************************************)
(* Strings                                                                 *)
(***************************************************************************)
Digits == <<"0", "1", "2", "3", "4", "5", "6", "7", "8", "9">>

LowerCase ==
  <<"a", "b", "c", "d", "e", "f", "g", "h", "i", "j", "k", "l", "m",
    "n", "o", "p", "q", "r", "s", "t", "u", "v", "w", "x", "y", "z">>

UpperCase ==
  <<"A", "B", "C", "D", "E", "F", "G", "H", "I", "J", "K", "L", "M",
    "N", "O", "P", "Q", "R", "S", "T", "U", "V", "W", "X", "Y", "Z">>

SeqRange(s) == {s[i] : i \in DOMAIN s}

IndexOf(c, s) ==
  IF \E i \in DOMAIN s : s[i] = c THEN CHOOSE i \in DOMAIN s : s[i] = c ELSE 0

\* the JavaScript value undefined, where a string or a record may stand
Undefined == <<"undefined">>

IsLower(c) == c \in SeqRange(LowerCase)
IsUpper(c) == c \in SeqRange(UpperCase)

toLowerCaseChar(c) == IF IsUpper(c) THEN LowerCase[IndexOf(c, UpperCase)] ELSE c
toUpperCaseChar(c) == IF IsLower(c) THEN UpperCase[IndexOf(c, LowerCase)] ELSE c

toLowerCase(s) == [i \in DOMAIN s |-> toLowerCaseChar(s[i])]

RECURSIVE DropWhile(_, _)
DropWhile(s, bad) ==
  IF s # <<>> /\ Head(s) \in bad THEN DropWhile(Tail(s), bad) ELSE s

RECURSIVE DropLastWhile(_, _)
DropLastWhile(s, bad) ==
  IF s # <<>> /\ s[Len(s)] \in bad
    THEN DropLastWhile(SubSeq(s, 1, Len(s) - 1), bad)
    ELSE s

\* String.prototype.trim
trim(s) == DropLastWhile(DropWhile(s, {" ", "\t", "\n"}), {" ", "\t", "\n"})

\* a regular-expression character class: [chars] or, negated, [^chars]
InClass(c, class) == (c \in class.chars) # class.negated

\* s.replace(/[class]+/g, rep): every maximal run of characters of the class
\* becomes rep
RECURSIVE ReplaceRuns(_, _, _)
ReplaceRuns(s, class, rep) ==
  IF s = <<>> THEN <<>>
  ELSE IF InClass(Head(s), class)
    THEN LET rest == Tail(s)
             k == IF \E i \in DOMAIN rest : ~InClass(rest[i], class)
                    THEN (CHOOSE i \in DOMAIN rest :
                            /\ ~InClass(rest[i], class)
                            /\ \A j \in 1..(i - 1) : InClass(rest[j], class))
                    ELSE Len(rest) + 1
         IN rep \o ReplaceRuns(SubSeq(rest, k, Len(rest)), class, rep)
    ELSE <<Head(s)>> \o ReplaceRuns(Tail(s), class, rep)

\* s.split(/[\\/]/).filter(Boolean): the non-empty segments between separators
RECURSIVE SplitSegments(_, _, _)
SplitSegments(s, seps, cur) ==
  IF s = <<>> THEN (IF cur = <<>> THEN <<>> ELSE <<cur>>)
  ELSE IF Head(s) \in seps
    THEN (IF cur = <<>> THEN <<>> ELSE <<cur>>) \o SplitSegments(Tail(s), seps, <<>>)
    ELSE SplitSegments(Tail(s), seps, cur \o <<Head(s)>>)

\* `${n}` for a non-negative integer
RECURSIVE NatToStr(_)
NatToStr(n) ==
  IF n < 10 THEN <<Digits[n + 1]>> ELSE NatToStr(n \div 10) \o <<Digits[(n % 10) + 1]>>

\* Array.prototype.join
RECURSIVE Join(_, _)
Join(parts, sep) ==
  IF parts = <<>> THEN <<>>
  ELSE IF Len(parts) = 1 THEN parts[1]
  ELSE parts[1] \o sep \o Join(Tail(parts), sep)

capitalise(s) == IF s = <<>> THEN s ELSE <<toUpperCaseChar(s[1])>> \o Tail(s)


(***************************************************************************)
(* Sample bank identity and metadata (pure helpers)                        *)
(***************************************************************************)
\* A bank source: a string (compared by value) or a key->path mapping object
\* (compared by reference: ref is the object's identity). keys lists the
\* mapping's keys in Object.keys order; the paths are opaque and left out.
StringSource(chars) == [kind |-> "string", ref |-> 0, chars |-> chars, keys |-> <<>>]
MapSource(ref, keys) == [kind |-> "map", ref |-> ref, chars |-> <<>>, keys |-> keys]

NoMeta ==
  [baseUrl |-> Undefined, tag |-> Undefined, prebake |-> Undefined,
   bankPrefix |-> Undefined, bankAliases |-> Undefined]

NoOptions ==
  [id |-> Undefined, label |-> Undefined, baseUrl |-> Undefined,
   tag |-> Undefined, prebake |-> Undefined, bankPrefix |-> Undefined]

\* a ?? b
Coalesce(a, b) == IF a # Undefined THEN a ELSE b

\* JavaScript truthiness of an optional string
Truthy(s) == s # Undefined /\ s # <<>>

\* [^a-z0-9], [^a-zA-Z0-9], [_-] and \s
NotSlugChar == [chars |-> SeqRange(LowerCase) \cup SeqRange(Digits), negated |-> TRUE]
NotAlnumChar ==
  [chars |-> SeqRange(LowerCase) \cup SeqRange(UpperCase) \cup SeqRange(Digits),
   negated |-> TRUE]
UnderscoreOrDash == [chars |-> {"_", "-"}, negated |-> FALSE]
WhiteSpace == [chars |-> {" ", "\t", "\n"}, negated |-> FALSE]

normaliseSampleBankId(value) ==
  LET v == IF value = Undefined THEN <<>> ELSE value
      dashed == ReplaceRuns(toLowerCase(trim(v)), NotSlugChar, <<"-">>)
      slug == DropLastWhile(DropWhile(dashed, {"-"}), {"-"})
  IN IF slug # <<>> THEN slug
     ELSE <<"s", "a", "m", "p", "l", "e", "-", "b", "a", "n", "k">>

\* the keys of a mapping that do not start with "_"
PublicKeys(keys) == SelectSeq(keys, LAMBDA k : ~(k # <<>> /\ k[1] = "_"))

inferSampleBankIdFromSource(source) ==
  IF source.kind = "string"
    THEN LET segments == SplitSegments(source.chars, {"/", "\\"}, <<>>)
         IN IF segments # <<>> THEN segments[Len(segments)] ELSE source.chars
    ELSE LET keys == PublicKeys(source.keys)
         IN IF keys # <<>> THEN keys[1]
            ELSE <<"c", "u", "s", "t", "o", "m", "-", "b", "a", "n", "k">>

\* value.replace(/([a-z])([A-Z])/g, '$1 $2')
RECURSIVE SplitCamel(_)
SplitCamel(s) ==
  IF Len(s) < 2 THEN s
  ELSE IF IsLower(s[1]) /\ IsUpper(s[2])
    THEN <<s[1], " ", s[2]>> \o SplitCamel(SubSeq(s, 3, Len(s)))
    ELSE <<s[1]>> \o SplitCamel(Tail(s))

humaniseToken(value) ==
  LET SampleBankWords == <<"S", "a", "m", "p", "l", "e", " ", "b", "a", "n", "k">>
      spaced == trim(ReplaceRuns(SplitCamel(ReplaceRuns(value, UnderscoreOrDash, <<" ">>)),
                                 WhiteSpace, <<" ">>))
  IN IF value = <<>> THEN SampleBankWords
     ELSE IF spaced # <<>> THEN capitalise(spaced) ELSE SampleBankWords

inferSampleBankLabelFromSource(source, fallback) ==
  LET candidate ==
        IF source.kind = "string"
          THEN LET segments == SplitSegments(source.chars, {"/", "\\"}, <<>>)
               IN IF segments # <<>> THEN segments[Len(segments)] ELSE fallback
          ELSE LET keys == PublicKeys(source.keys)
               IN IF keys # <<>> THEN keys[1] ELSE fallback
  IN humaniseToken(candidate)

normaliseSampleBankPrefix(value) ==
  IF ~Truthy(value) THEN Undefined
  ELSE LET compact == SelectSeq(value, LAMBDA c : ~InClass(c, NotAlnumChar))
       IN IF compact = <<>> THEN Undefined ELSE capitalise(compact)

formatBankDescriptor(extras) ==
  IF Truthy(extras.bankPrefix)
    THEN <<" ", "(", "b", "a", "n", "k", ":", " ">> \o extras.bankPrefix \o <<")">>
    ELSE <<>>

describeSampleBankSource(source, extras) ==
  IF source.kind = "string" THEN source.chars \o formatBankDescriptor(extras)
  ELSE LET keys == PublicKeys(source.keys)
           total == Len(keys)
           CustomMap == <<"C", "u", "s", "t", "o", "m", " ", "m", "a", "p">>
           preview == Join(SubSeq(keys, 1, IF total < 3 THEN total ELSE 3), <<",", " ">>)
           extra == IF total > 3
                      THEN <<" ", "+">> \o NatToStr(total - 3) \o <<" ", "m", "o", "r", "e">>
                      ELSE <<>>
           base == IF total # 0
                     THEN CustomMap \o <<" ", "(">> \o NatToStr(total) \o <<" ", "k", "e", "y">>
                          \o (IF total = 1 THEN <<>> ELSE <<"s">>) \o <<":", " ">>
                          \o preview \o extra \o <<")">>
                     ELSE CustomMap
           withBase == IF Truthy(extras.baseUrl)
                         THEN base \o <<" ", "@", " ">> \o extras.baseUrl
                         ELSE base
       IN withBase \o formatBankDescriptor(extras)

RECURSIVE dedupeBankAliases(_)
dedupeBankAliases(values) ==
  IF values = <<>> THEN <<>>
  ELSE LET init == dedupeBankAliases(SubSeq(values, 1, Len(values) - 1))
           last == values[Len(values)]
       IN IF ~Truthy(last) \/ last \in SeqRange(init) THEN init ELSE Append(init, last)

mergeSampleBankMeta(current, next) ==
  LET aliases ==
        IF next.bankAliases # Undefined
          THEN LET combined ==
                     dedupeBankAliases(
                       (IF current.bankAliases # Undefined THEN current.bankAliases ELSE <<>>)
                       \o next.bankAliases)
               IN IF combined # <<>> THEN combined ELSE Undefined
          ELSE current.bankAliases
  IN [baseUrl |-> Coalesce(next.baseUrl, current.baseUrl),
      tag |-> Coalesce(next.tag, current.tag),
      prebake |-> Coalesce(next.prebake, current.prebake),
      bankPrefix |-> Coalesce(next.bankPrefix, current.bankPrefix),
      bankAliases |-> aliases]

\* the prefixed duplicate keys added for a bank prefix: `${prefix}_${key}` for
\* every key not starting with "_" whose prefixed form is not yet a key
augmentSampleMapWithPrefix(keys, prefix) ==
  IF ~Truthy(prefix) THEN keys
  ELSE LET prefixed(k) == prefix \o <<"_">> \o k
           RECURSIVE Add(_, _)
           Add(i, result) ==
             IF i > Len(keys) THEN result
             ELSE IF keys[i] # <<>> /\ keys[i][1] = "_" THEN Add(i + 1, result)
             ELSE IF prefixed(keys[i]) \in SeqRange(result) THEN Add(i + 1, result)
             ELSE Add(i + 1, Append(result, prefixed(keys[i])))
       IN Add(1, keys)


(***************************************************************************)
(* State                                                                   *)
(***************************************************************************)
VARIABLES
  \* ---- one StrudelEngine instance (src/src/lib/strudel-engine.ts)
  state,               \* the EngineState snapshot
  readyPromise,        \* "none", "pending", "resolved", "rejected"
  initPc,              \* where the bootstrap body stands
  webaudio,            \* this.webaudio: [loaded, samples]
  repl,                \* this.repl exists
  audioInitPromise,    \* "none", "pending", "resolved", or the rejection's message
  audioPc,             \* where the audio unlock body stands
  sampleLoadPromise,   \* "none", "pending", "resolved", "rejected"
  samplePc,            \* where the bootstrap sample-pack load stands
  sampleLoadingCount,
  sampleBankPromises,  \* bank id -> index in loads of the tracked promise
  sampleBankRegistry,  \* the registry Map, as the sequence of its values
  loads,               \* every performSampleBankLoad invocation
  activeMap,           \* key -> [range, count]
  timers,              \* pending setTimeout callbacks of scheduleHighlight
  haps,                \* highlightOutput invocations
  now,                 \* the clock, in milliseconds
  disposed,            \* dispose() has been called
  \* ---- several instances over the process-wide module cache
  \*      (src/unnamed/part_002)
  moduleCache,         \* globalThis.__strudelModuleCache
  engines,             \* per instance: readyPromise, webaudio, repl, isReady
  calls,               \* every init()/evaluate() invocation
  moduleLoads,         \* how often the module-load step has run
  \* ---- the callers and the subscribers of the one instance
  invocations,         \* every evaluate()/start() invocation past its first await
  outstanding,         \* calls of the unlock body and of samples(DIRT) not yet settled
  listeners,           \* this.listeners, in insertion order
  snapshots,           \* the EngineState objects this.state has pointed to, the
                       \* last being the current one (kept where listeners
                       \* subscribe)
  subscribers,         \* listener function -> the snapshots it was called with,
                       \* in order, and what its caller did last
  \* ---- what the instances share through the page (src/unnamed/part_002)
  scopes,              \* per instance: hydra, audioSplitterGain,
                       \* audioRoutingPatched, audioUnlocked and the calls in flight
  connect,             \* AudioNode.prototype.connect: the instances whose
                       \* patchedConnect wraps it, innermost first
  graph,               \* the connections of the splitters: <<splitter, target>>,
                       \* target 0 being audioContext.destination
  \* ---- the remote source resolver (src/src/lib/sample-pack.ts)
  defaultBranchCache,  \* owner/repo -> branch, "" where the Map has no entry
  requests,            \* every resolveGithubSource / fetchGithubTreeEntries call
  lookups,             \* owner/repo -> how often the repo info was fetched
  \* ---- the pending import bridge (src/src/lib/sample-bank-bridge.ts) and
  \*      its listener (src/src/components/live-coding-workspace.tsx)
  localStorage,        \* the entry under STORAGE_KEY, NoItem without one
  importListeners,     \* the handleImport listeners of the window, in order
  consumed,            \* what each consumePendingSamplePack() call returned
  imports,             \* the packs handed to engine.loadSampleBank
  \* ---- what stop() and dispose() leave behind
  transport,           \* the REPL's scheduler is running
  contextClosed        \* getAudioContext().close() has been called

engineVars ==
  <<state, readyPromise, initPc, webaudio, repl, audioInitPromise, audioPc,
    sampleLoadPromise, samplePc, sampleLoadingCount>>
bankVars == <<sampleBankPromises, sampleBankRegistry, loads>>
highlightVars == <<activeMap, timers, haps, now, disposed>>
processVars == <<moduleCache, engines, calls, moduleLoads>>
observerVars == <<listeners, snapshots, subscribers>>
facadeVars == <<invocations, outstanding, observerVars>>
routingVars == <<scopes, connect, graph>>
resolverVars == <<defaultBranchCache, requests, lookups>>
bridgeVars == <<localStorage, importListeners, consumed, imports>>
teardownVars == <<transport, contextClosed>>
globalVars == <<routingVars, resolverVars, bridgeVars, teardownVars>>
vars ==
  <<engineVars, bankVars, highlightVars, processVars, facadeVars, globalVars>>

(***************************************************************************)
(* Bounds and inputs                                                       *)
(***************************************************************************)
MaxBanks == 3
MaxLoads == 2
MaxHaps == 3
MaxEngines == 2
MaxCalls == 3
MaxInvocations == 2
MaxListeners == 2
MaxSnapshots == 3
MaxDeliveries == 3
MaxScopeCalls == 2
MaxRequests == 3
MaxConsumes == 4

DEFAULT_BPM == 40

SourceAB == StringSource(<<"a", "/", "b">>)
SourceCB == StringSource(<<"c", "/", "B">>)
SourceMapB == MapSource(1, << <<"_", "b", "a", "s", "e">>, <<"b">> >>)
SourceMapK == MapSource(2, << <<"_", "b", "a", "s", "e">>, <<"k">>, <<"s", "d">> >>)

\* what the callers of the registry-only specification pass: three sources
\* that all derive the id "b", with and without an explicit id, with
\* metadata, with a bank prefix, and the update of one bank's baseUrl only
RegistrySources == {SourceAB, SourceCB, SourceMapB}
RegistryOptions ==
  {NoOptions,
   [NoOptions EXCEPT !.id = <<"B">>],
   [NoOptions EXCEPT !.baseUrl = <<"u">>, !.tag = <<"t">>],
   [NoOptions EXCEPT !.bankPrefix = <<"z">>],
   [NoOptions EXCEPT !.id = <<"b">>, !.baseUrl = <<"v">>]}

\* what the callers of the load specification pass: two banks with different
\* ids
LoadSources == {SourceAB, SourceMapK}
LoadOptions == {NoOptions, [NoOptions EXCEPT !.baseUrl = <<"u">>]}

\* the events the scheduler delivers: their source ranges and their durations
\* in tenths of a second
Range1020 == <<10, 20>>
Range05 == <<0, 5>>
HapLocations == {<<>>, <<Range1020>>, <<Range1020, Range05>>}
HapDurations == {-1, 1, 3}

\* the code a caller evaluates: empty, white space only, and two programs
CodeInputs == {<<>>, <<" ", "\t">>, <<"s">>, <<" ", "s", " ">>}

ErrorMessage(name) == <<name>>

\* a JavaScript number: an integer or NaN
Num(v) == [isNaN |-> FALSE, value |-> v]
NaN == [isNaN |-> TRUE, value |-> 0]

\* Math.max and Math.min: NaN when an argument is NaN
MathMax(a, b) ==
  IF a.isNaN \/ b.isNaN THEN NaN
  ELSE IF a.value >= b.value THEN a ELSE b
MathMin(a, b) ==
  IF a.isNaN \/ b.isNaN THEN NaN
  ELSE IF a.value <= b.value THEN a ELSE b

\* the tempi a caller passes
TempoInputs == {NaN, Num(-7), Num(39), Num(120), Num(241)}

(***************************************************************************)
(* EngineState                                                             *)
(***************************************************************************)
InitialState ==
  [isReady |-> FALSE, isPlaying |-> FALSE, isEvaluating |-> FALSE,
   bpm |-> Num(DEFAULT_BPM), audioUnlocked |-> FALSE, samplesLoaded |-> FALSE,
   isLoadingSamples |-> FALSE, miniLocations |-> <<>>, activeLocations |-> <<>>,
   sampleBanks |-> <<>>, lastEvaluatedAt |-> <<>>, error |-> Undefined]

\* { ...a, ...b }
Spread(a, b) ==
  [k \in DOMAIN a \cup DOMAIN b |-> IF k \in DOMAIN b THEN b[k] ELSE a[k]]

\* setState: the snapshot with the update's fields replaced
setState(st, update) == Spread(st, update)

\* the fields that hold arrays: every update of one carries a new array
ArrayFields == {"miniLocations", "activeLocations", "sampleBanks"}

\* setState's test: some key of the update is not Object.is-equal to the
\* current value; a new array never is
stateChanged_Always(st, update) == TRUE
stateChanged(st, update) ==
  \E key \in DOMAIN update : key \in ArrayFields \/ st[key] # update[key]

\* emit: every listener of the set is called with the snapshot
emit_FirstOnly(ls, subs, ref) ==
  [f \in DOMAIN subs |->
     IF ls # <<>> /\ f = ls[1] THEN [subs[f] EXCEPT !.received = Append(@, ref)]
     ELSE subs[f]]
emit(ls, subs, ref) ==
  [f \in DOMAIN subs |->
     IF \E i \in DOMAIN ls : ls[i] = f THEN [subs[f] EXCEPT !.received = Append(@, ref)]
     ELSE subs[f]]

\* the updates the handlers pass to setState: the keys they set and the
\* values, among them an update without keys, updates that repeat the current
\* value, and a fresh empty array
StateUpdates ==
  {[keys |-> {}, values |-> InitialState],
   [keys |-> {"bpm"}, values |-> InitialState],
   [keys |-> {"bpm"}, values |-> [InitialState EXCEPT !.bpm = Num(120)]],
   [keys |-> {"error"}, values |-> [InitialState EXCEPT !.error = ErrorMessage("evaluate failed")]],
   [keys |-> {"isPlaying", "isEvaluating", "error"}, values |-> [InitialState EXCEPT !.isPlaying = TRUE]],
   [keys |-> {"activeLocations"}, values |-> InitialState]}

\* adjustSampleLoading: the counter and the snapshot after adding delta
adjustSampleLoading_KeepFlag(count, st, delta) ==
  [count |-> IF count + delta > 0 THEN count + delta ELSE 0, state |-> st]
adjustSampleLoading(count, st, delta) ==
  IF delta = 0 THEN [count |-> count, state |-> st]
  ELSE LET next == IF count + delta > 0 THEN count + delta ELSE 0
           isLoading == next > 0
       IN [count |-> next,
           state |-> IF isLoading # st.isLoadingSamples
                       THEN setState(st, [isLoadingSamples |-> isLoading])
                       ELSE st]

(***************************************************************************)
(* The registry Map                                                        *)
(***************************************************************************)
RegIndex(reg, id) ==
  IF \E i \in DOMAIN reg : reg[i].id = id
    THEN CHOOSE i \in DOMAIN reg : reg[i].id = id
    ELSE 0

RegHas(reg, id) == RegIndex(reg, id) # 0

\* Map.set: an existing key keeps its place, a new key goes last
RegSet(reg, id, entry) ==
  IF RegHas(reg, id) THEN [reg EXCEPT ![RegIndex(reg, id)] = entry]
  ELSE Append(reg, entry)

RegDelete(reg, id) == SelectSeq(reg, LAMBDA e : e.id # id)

MapDelete(m, k) == [x \in DOMAIN m \ {k} |-> m[x]]
MapSet(m, k, v) == [x \in DOMAIN m \cup {k} |-> IF x = k THEN v ELSE m[x]]
EmptyMap == [x \in {} |-> 0]


(***************************************************************************)
(* Sample bank registry: the synchronous handlers                          *)
(***************************************************************************)
NoSource == StringSource(Undefined)

\* `${baseId}-${suffix}`, normalised
SuffixedBaseId(baseId, suffix) ==
  normaliseSampleBankId(baseId \o <<"-">> \o NatToStr(suffix))

\* a suffix loop that stops at once
FirstFreeSuffix_NoLoop(reg, baseId) == 2

\* registerSampleBank's loop: the first suffix from 2 whose id is unused
FirstFreeSuffix(reg, baseId) ==
  CHOOSE n \in 2..(Len(reg) + 2) :
    /\ ~RegHas(reg, SuffixedBaseId(baseId, n))
    /\ \A m \in 2..(n - 1) : RegHas(reg, SuffixedBaseId(baseId, m))

\* derivedId || `bank-${size + 1}`
RegisterBaseId(reg, source, options) ==
  LET derivedId == Coalesce(options.id, inferSampleBankIdFromSource(source))
  IN IF derivedId # <<>> THEN derivedId
     ELSE <<"b", "a", "n", "k", "-">> \o NatToStr(Len(reg) + 1)

\* the id after the suffix loop, id being the normalised baseId
ResolveRegisterId(reg, source, options, baseId, id) ==
  IF ~Truthy(options.id) /\ RegHas(reg, id) /\ reg[RegIndex(reg, id)].source # source
    THEN SuffixedBaseId(baseId, FirstFreeSuffix(reg, baseId))
    ELSE id

\* the id registerSampleBank stores the bank under
RegisterId(reg, source, options) ==
  ResolveRegisterId(reg, source, options, RegisterBaseId(reg, source, options),
                    normaliseSampleBankId(RegisterBaseId(reg, source, options)))

\* registerSampleBank's lookups of `existing` when there is no entry
NoEntry ==
  [id |-> Undefined, label |-> Undefined, status |-> "idle", source |-> NoSource,
   sourceSummary |-> Undefined, error |-> Undefined, loadedAt |-> <<>>, meta |-> NoMeta]

RegGet(reg, id) == IF RegHas(reg, id) THEN reg[RegIndex(reg, id)] ELSE NoEntry

\* options.label ?? existing?.label ?? inferSampleBankLabelFromSource(source, id)
RegisterLabelInput(source, options, id, hasExisting, existing) ==
  Coalesce(options.label,
           IF hasExisting THEN existing.label
           ELSE inferSampleBankLabelFromSource(source, id))

\* options.bankPrefix ?? normaliseSampleBankPrefix(labelInput) ??
\* existing?.meta?.bankPrefix ?? normaliseSampleBankPrefix(baseId) ?? baseId
RegisterPrefix(options, baseId, hasExisting, existing, labelInput) ==
  Coalesce(options.bankPrefix,
    Coalesce(normaliseSampleBankPrefix(labelInput),
      Coalesce(IF hasExisting THEN existing.meta.bankPrefix ELSE Undefined,
        Coalesce(normaliseSampleBankPrefix(baseId), baseId))))

RegisterMeta(options, hasExisting, existing, normalisedPrefix) ==
  mergeSampleBankMeta(
    IF hasExisting THEN existing.meta ELSE NoMeta,
    [baseUrl |-> options.baseUrl, tag |-> options.tag, prebake |-> options.prebake,
     bankPrefix |-> normalisedPrefix, bankAliases |-> Undefined])

\* the entry registerSampleBank builds, stores and returns
RegisterEntry_KeepStatus(reg, source, id, hasExisting, existing, normalisedPrefix, meta) ==
  LET nextState ==
        [id |-> id,
         label |-> normalisedPrefix,
         status |-> IF hasExisting THEN existing.status ELSE "idle",
         source |-> source,
         sourceSummary |->
           describeSampleBankSource(source,
             [baseUrl |-> meta.baseUrl, bankPrefix |-> meta.bankPrefix]),
         error |-> IF hasExisting THEN existing.error ELSE Undefined,
         loadedAt |-> IF hasExisting THEN existing.loadedAt ELSE <<>>,
         meta |-> meta]
  IN [registry |-> RegSet(reg, id, nextState), state |-> nextState]
RegisterEntry(reg, source, id, hasExisting, existing, normalisedPrefix, meta) ==
  LET sourceChanged == ~hasExisting \/ existing.source # source
      nextState ==
        [id |-> id,
         label |-> normalisedPrefix,
         status |-> IF sourceChanged THEN "idle" ELSE existing.status,
         source |-> source,
         sourceSummary |->
           describeSampleBankSource(source,
             [baseUrl |-> meta.baseUrl, bankPrefix |-> meta.bankPrefix]),
         error |-> IF sourceChanged THEN Undefined ELSE existing.error,
         loadedAt |-> IF sourceChanged THEN <<>> ELSE existing.loadedAt,
         meta |-> meta]
  IN [registry |-> RegSet(reg, id, nextState), state |-> nextState]

RegisterWithPrefix(reg, source, options, id, hasExisting, existing, normalisedPrefix) ==
  RegisterEntry(reg, source, id, hasExisting, existing, normalisedPrefix,
                RegisterMeta(options, hasExisting, existing, normalisedPrefix))

RegisterWithExisting(reg, source, options, baseId, id, hasExisting, existing) ==
  RegisterWithPrefix(reg, source, options, id, hasExisting, existing,
    RegisterPrefix(options, baseId, hasExisting, existing,
      RegisterLabelInput(source, options, id, hasExisting, existing)))

RegisterWithId(reg, source, options, baseId, id) ==
  RegisterWithExisting(reg, source, options, baseId, id, RegHas(reg, id), RegGet(reg, id))

\* registerSampleBank: [registry: the registry afterwards, state: the entry
\* returned]
registerSampleBank(reg, source, options) ==
  RegisterWithId(reg, source, options, RegisterBaseId(reg, source, options),
                 RegisterId(reg, source, options))

\* updateSampleBank: [found, registry, state]; patch is a record holding the
\* patched fields only
updateSampleBank(reg, id, patch) ==
  IF ~RegHas(reg, id) THEN [found |-> FALSE, registry |-> reg, state |-> Undefined]
  ELSE LET current == reg[RegIndex(reg, id)]
           nextMeta == IF "meta" \in DOMAIN patch
                         THEN mergeSampleBankMeta(current.meta, patch.meta)
                         ELSE current.meta
           merged == [Spread(current, patch) EXCEPT !.meta = nextMeta]
           resummarise ==
             /\ ("sourceSummary" \notin DOMAIN patch \/ patch.sourceSummary = Undefined)
             /\ "meta" \in DOMAIN patch
             /\ (patch.meta.baseUrl # Undefined \/ patch.meta.bankPrefix # Undefined)
           nextState ==
             IF resummarise
               THEN [merged EXCEPT !.sourceSummary =
                       describeSampleBankSource(merged.source,
                         [baseUrl |-> nextMeta.baseUrl, bankPrefix |-> nextMeta.bankPrefix])]
               ELSE merged
       IN [found |-> TRUE, registry |-> RegSet(reg, id, nextState), state |-> nextState]

\* syncSampleBanks after a registry mutation
syncSampleBanks_Skip(st, reg) == st
syncSampleBanks(st, reg) == setState(st, [sampleBanks |-> reg])

\* runSampleBankLoad up to its in-flight check, for a registered targetId:
\* the metadata update of the entry and the prepared state
prepareSampleBankLoad(reg, targetId, overrides) ==
  LET existing == reg[RegIndex(reg, targetId)]
      meta == mergeSampleBankMeta(existing.meta,
                [baseUrl |-> overrides.baseUrl, tag |-> overrides.tag,
                 prebake |-> overrides.prebake, bankPrefix |-> overrides.bankPrefix,
                 bankAliases |-> Undefined])
      summary == describeSampleBankSource(existing.source,
                   [baseUrl |-> meta.baseUrl, bankPrefix |-> meta.bankPrefix])
  IN updateSampleBank(reg, targetId,
       [meta |-> meta, label |-> Coalesce(overrides.label, existing.label),
        sourceSummary |-> summary, error |-> Undefined])

\* does runSampleBankLoad find a tracked in-flight promise for the id
HasInflight(promises, targetId) == targetId \in DOMAIN promises

\* the arguments of the external samples primitive; made is FALSE until the
\* load has called it
NoCall ==
  [made |-> FALSE, source |-> NoSource, baseUrl |-> Undefined, tag |-> Undefined,
   prebake |-> Undefined]

\* a performSampleBankLoad invocation, suspended at its first await; of its
\* argument it keeps what it reads afterwards: the id, the source and the meta
NewLoad(prepared) ==
  [id |-> prepared.id, source |-> prepared.source, meta |-> prepared.meta,
   pc |-> "init", call |-> NoCall]

\* a settled invocation: its locals are dead, its id and outcome remain
Settled(load, outcome) ==
  [load EXCEPT !.pc = outcome, !.source = NoSource, !.meta = NoMeta, !.call = NoCall]


(***************************************************************************)
(* Active ranges: the multiset behind activeLocations                      *)
(***************************************************************************)
\* the Map key of a range: `${range[0]}-${range[1]}`
ActiveKey(range) == NatToStr(range[1]) \o <<"-">> \o NatToStr(range[2])

ActiveIndex(map, key) ==
  IF \E i \in DOMAIN map : map[i].key = key
    THEN CHOOSE i \in DOMAIN map : map[i].key = key
    ELSE 0

rangesEqual_LengthOnly(a, b) == Len(a) = Len(b)
rangesEqual(a, b) ==
  /\ Len(a) = Len(b)
  /\ \A i \in DOMAIN a : a[i][1] = b[i][1] /\ a[i][2] = b[i][2]

updateActiveLocations(map, st) ==
  LET next == [i \in DOMAIN map |-> map[i].range]
  IN IF ~rangesEqual(next, st.activeLocations)
       THEN setState(st, [activeLocations |-> next])
       ELSE st

\* an increment that forgets the count the range already has
addActiveRange_ResetCount(map, st, range) ==
  LET key == ActiveKey(range)
      i == ActiveIndex(map, key)
      next == IF i # 0 THEN [map EXCEPT ![i].count = 1]
              ELSE Append(map, [key |-> key, range |-> range, count |-> 1])
  IN [activeMap |-> next, state |-> updateActiveLocations(next, st)]

\* addActiveRange up to its return: the count of the range goes up, or the
\* range enters the map last with count 1
addActiveRange(map, st, range) ==
  LET key == ActiveKey(range)
      i == ActiveIndex(map, key)
      next == IF i # 0 THEN [map EXCEPT ![i].count = @ + 1]
              ELSE Append(map, [key |-> key, range |-> range, count |-> 1])
  IN [activeMap |-> next, state |-> updateActiveLocations(next, st)]

\* a release that leaves the entry in the map at count 0
releaseRange_KeepEntry(map, st, key) ==
  LET i == ActiveIndex(map, key)
      next == IF i = 0 THEN map ELSE [map EXCEPT ![i].count = @ - 1]
  IN [activeMap |-> next, state |-> updateActiveLocations(next, st)]

\* the closure addActiveRange returns, called by the decrement timer
releaseRange(map, st, key) ==
  LET i == ActiveIndex(map, key)
  IN IF i = 0 THEN [activeMap |-> map, state |-> st]
     ELSE LET lowered == [map EXCEPT ![i].count = @ - 1]
              next == IF lowered[i].count <= 0
                        THEN SelectSeq(lowered, LAMBDA e : e.key # key)
                        ELSE lowered
          IN [activeMap |-> next, state |-> updateActiveLocations(next, st)]

\* a clear that empties the snapshot but not the map
clearActiveLocations_KeepMap(map, st) ==
  IF Len(map) = 0 /\ Len(st.activeLocations) = 0
    THEN [activeMap |-> map, state |-> st]
    ELSE [activeMap |-> map, state |-> setState(st, [activeLocations |-> <<>>])]

clearActiveLocations(map, st) ==
  IF Len(map) = 0 /\ Len(st.activeLocations) = 0
    THEN [activeMap |-> map, state |-> st]
    ELSE [activeMap |-> <<>>, state |-> setState(st, [activeLocations |-> <<>>])]

\* locations.map((range) => this.addActiveRange(range)), left to right
RECURSIVE AddRanges(_, _, _)
AddRanges(map, st, locations) ==
  IF locations = <<>> THEN [activeMap |-> map, state |-> st]
  ELSE LET r == addActiveRange(map, st, Head(locations))
       IN AddRanges(r.activeMap, r.state, Tail(locations))

\* a timer that calls the first release function only
ReleaseRanges_FirstOnly(map, st, keys) ==
  IF keys = <<>> THEN [activeMap |-> map, state |-> st]
  ELSE releaseRange(map, st, Head(keys))

\* releaseFns.forEach((fn) => fn()), left to right
RECURSIVE ReleaseRanges(_, _, _)
ReleaseRanges(map, st, keys) ==
  IF keys = <<>> THEN [activeMap |-> map, state |-> st]
  ELSE LET r == releaseRange(map, st, Head(keys))
       IN ReleaseRanges(r.activeMap, r.state, Tail(keys))

Max(a, b) == IF a >= b THEN a ELSE b

\* the delay scheduleHighlight gives setTimeout, in ms; the duration comes in
\* tenths of a second
HighlightDelay(durationTenths) == Max(0, durationTenths * 100) + 10

\* sendHighlights and scheduleHighlight: [activeMap, state, timers]
sendHighlights(map, st, tms, locations, durationTenths, time) ==
  IF locations = <<>> THEN [activeMap |-> map, state |-> st, timers |-> tms]
  ELSE LET r == AddRanges(map, st, locations)
       IN [activeMap |-> r.activeMap, state |-> r.state,
           timers |-> Append(tms,
             [keys |-> [i \in DOMAIN locations |-> ActiveKey(locations[i])],
              fireAt |-> time + HighlightDelay(durationTenths),
              fired |-> FALSE])]


(***************************************************************************)
(* Bootstrap and audio unlock of the one instance                          *)
(***************************************************************************)
\* init() up to its return: the first call starts the bootstrap body
initStart(rp, pc) ==
  IF rp # "none" THEN [readyPromise |-> rp, initPc |-> pc]
  ELSE [readyPromise |-> "pending", initPc |-> "import"]

\* the values of audioInitPromise once the unlock body has thrown: the message
\* of the error it rejects with
AudioRejections == {"initAudioOnFirstClick failed", "registerSynthSounds failed"}

\* ensureAudio() up to its return: the first call with the webaudio module
\* present starts the unlock body; started counts the bodies this call starts
ensureAudioStart_NoMemo(wa, ap, pc) ==
  IF ~wa.loaded THEN [audioInitPromise |-> ap, audioPc |-> pc, started |-> 0]
  ELSE [audioInitPromise |-> "pending", audioPc |-> "initAudioOnFirstClick", started |-> 1]
ensureAudioStart(wa, ap, pc) ==
  IF ~wa.loaded \/ ap # "none" THEN [audioInitPromise |-> ap, audioPc |-> pc, started |-> 0]
  ELSE [audioInitPromise |-> "pending", audioPc |-> "initAudioOnFirstClick", started |-> 1]

\* a caller's init()
InitCall ==
  /\ readyPromise' = initStart(readyPromise, initPc).readyPromise
  /\ initPc' = initStart(readyPromise, initPc).initPc
  /\ UNCHANGED <<state, webaudio, repl, audioInitPromise, audioPc, sampleLoadPromise,
                 samplePc, sampleLoadingCount, bankVars, highlightVars, processVars, globalVars, facadeVars>>

\* the module imports settle; the webaudio module may lack samples, the
\* transpiler module may lack a transpiler function
InitImportsSettle(ok, hasSamples, hasTranspiler) ==
  /\ initPc = "import"
  /\ IF ~ok
       THEN /\ readyPromise' = "rejected"
            /\ initPc' = "failed"
            /\ UNCHANGED webaudio
       ELSE /\ webaudio' = [loaded |-> TRUE, samples |-> hasSamples]
            /\ IF hasTranspiler
                 THEN initPc' = "evalScope" /\ UNCHANGED readyPromise
                 ELSE initPc' = "failed" /\ readyPromise' = "rejected"
  /\ UNCHANGED <<state, repl, audioInitPromise, audioPc, sampleLoadPromise, samplePc,
                 sampleLoadingCount, bankVars, highlightVars, processVars, globalVars, facadeVars>>

\* evalScope settles; on success the REPL is built and isReady flips
InitEvalScopeSettle(ok) ==
  /\ initPc = "evalScope"
  /\ IF ok
       THEN /\ repl' = TRUE
            /\ state' = setState(state, [isReady |-> TRUE])
            /\ readyPromise' = "resolved"
            /\ initPc' = "done"
       ELSE /\ readyPromise' = "rejected"
            /\ initPc' = "failed"
            /\ UNCHANGED <<repl, state>>
  /\ UNCHANGED <<webaudio, audioInitPromise, audioPc, sampleLoadPromise, samplePc,
                 sampleLoadingCount, bankVars, highlightVars, processVars, globalVars, facadeVars>>

\* initAudioOnFirstClick settles
AudioClickSettle(ok) ==
  /\ audioPc = "initAudioOnFirstClick"
  /\ IF ok
       THEN audioPc' = "registerSynthSounds" /\ UNCHANGED <<audioInitPromise, state, outstanding>>
       ELSE /\ audioPc' = "failed"
            /\ audioInitPromise' = "initAudioOnFirstClick failed"
            /\ outstanding' = [outstanding EXCEPT !.unlock = @ - 1]
            /\ state' = setState(state, [error |-> ErrorMessage("initAudioOnFirstClick failed")])
  /\ UNCHANGED <<readyPromise, initPc, webaudio, repl, sampleLoadPromise, samplePc,
                 sampleLoadingCount, bankVars, highlightVars, processVars, globalVars, invocations, observerVars>>

\* registerSynthSounds settles
AudioSynthSettle(ok) ==
  /\ audioPc = "registerSynthSounds"
  /\ outstanding' = [outstanding EXCEPT !.unlock = @ - 1]
  /\ IF ok
       THEN /\ audioPc' = "done"
            /\ audioInitPromise' = "resolved"
            /\ state' = setState(state, [audioUnlocked |-> TRUE])
       ELSE /\ audioPc' = "failed"
            /\ audioInitPromise' = "registerSynthSounds failed"
            /\ state' = setState(state, [error |-> ErrorMessage("registerSynthSounds failed")])
  /\ UNCHANGED <<readyPromise, initPc, webaudio, repl, sampleLoadPromise, samplePc,
                 sampleLoadingCount, bankVars, highlightVars, processVars, globalVars, invocations, observerVars>>

(***************************************************************************)
(* Sample bank registry: the operations                                    *)
(***************************************************************************)
RegisterSampleBank(source, options) ==
  LET r == registerSampleBank(sampleBankRegistry, source, options)
  IN /\ Len(r.registry) <= MaxBanks
     /\ sampleBankRegistry' = r.registry
     /\ state' = syncSampleBanks(state, r.registry)
     /\ UNCHANGED <<readyPromise, initPc, webaudio, repl, audioInitPromise, audioPc,
                    sampleLoadPromise, samplePc, sampleLoadingCount, sampleBankPromises,
                    loads, highlightVars, processVars, globalVars, facadeVars>>

RemoveSampleBank(id) ==
  LET normalised == normaliseSampleBankId(id)
  IN /\ IF ~RegHas(sampleBankRegistry, normalised)
          THEN UNCHANGED <<sampleBankRegistry, sampleBankPromises, state>>
          ELSE /\ sampleBankRegistry' = RegDelete(sampleBankRegistry, normalised)
               /\ sampleBankPromises' = MapDelete(sampleBankPromises, normalised)
               /\ state' = syncSampleBanks(state, sampleBankRegistry')
     /\ UNCHANGED <<readyPromise, initPc, webaudio, repl, audioInitPromise, audioPc,
                    sampleLoadPromise, samplePc, sampleLoadingCount, loads,
                    highlightVars, processVars, globalVars, facadeVars>>

\* runSampleBankLoad on the registry reg for a registered targetId, as the
\* tail of loadSampleBank and loadSampleBankById
RunSampleBankLoad(reg, targetId, overrides) ==
  LET p == prepareSampleBankLoad(reg, targetId, overrides)
      inflight == HasInflight(sampleBankPromises, targetId)
      n == Len(loads) + 1
  IN /\ sampleBankRegistry' = p.registry
     /\ state' = syncSampleBanks(state, p.registry)
     /\ IF inflight
          THEN /\ UNCHANGED <<loads, sampleBankPromises, readyPromise, initPc>>
          ELSE /\ n <= MaxLoads
               /\ loads' = Append(loads, NewLoad(p.state))
               /\ sampleBankPromises' = MapSet(sampleBankPromises, targetId, n)
               /\ readyPromise' = initStart(readyPromise, initPc).readyPromise
               /\ initPc' = initStart(readyPromise, initPc).initPc
     /\ UNCHANGED <<webaudio, repl, audioInitPromise, audioPc, sampleLoadPromise, samplePc,
                    sampleLoadingCount, highlightVars, processVars, globalVars, facadeVars>>

LoadSampleBank(source, options) ==
  LET r == registerSampleBank(sampleBankRegistry, source, options)
  IN /\ Len(r.registry) <= MaxBanks
     /\ RunSampleBankLoad(r.registry, r.state.id, options)

LoadSampleBankById(id, options) ==
  LET normalised == normaliseSampleBankId(id)
      existing == sampleBankRegistry[RegIndex(sampleBankRegistry, normalised)]
      reregister ==
        \/ options.label # Undefined
        \/ options.baseUrl # Undefined
        \/ options.tag # Undefined
        \/ options.prebake # Undefined
  IN IF ~RegHas(sampleBankRegistry, normalised)
       THEN \* throws: not registered
            UNCHANGED <<engineVars, bankVars, highlightVars, processVars, globalVars, facadeVars>>
       ELSE RunSampleBankLoad(
              IF reregister
                THEN registerSampleBank(sampleBankRegistry, existing.source,
                       [options EXCEPT !.id = normalised]).registry
                ELSE sampleBankRegistry,
              normalised, options)


(***************************************************************************)
(* performSampleBankLoad, one action per resumption                        *)
(***************************************************************************)
\* the finally block: the counter goes down and the promise entry of the
\* load's bank id is deleted
LoadFinally(l, reg, st) ==
  LET adj == adjustSampleLoading(sampleLoadingCount, st, -1)
  IN /\ sampleBankRegistry' = reg
     /\ sampleLoadingCount' = adj.count
     /\ state' = adj.state
     /\ sampleBankPromises' = MapDelete(sampleBankPromises, loads[l].id)

\* the snapshots performSampleBankLoad publishes when it marks the bank
\* 'loading' and then raises the counter
loadingSnapshots(reg, st, count, id) ==
  LET u == updateSampleBank(reg, id, [status |-> "loading", error |-> Undefined])
      synced == IF u.found THEN syncSampleBanks(st, u.registry) ELSE st
      adj == adjustSampleLoading(count, synced, 1)
  IN (IF u.found THEN <<synced>> ELSE <<>>) \o
     (IF adj.state # synced THEN <<adj.state>> ELSE <<>>)

\* `await this.init()` returns or throws; then the samples primitive is looked
\* up, the bank goes to 'loading', the counter goes up and ensureAudio() is
\* called
LoadAfterInit(l) ==
  /\ l \in DOMAIN loads
  /\ loads[l].pc = "init"
  /\ readyPromise \in {"resolved", "rejected"}
  /\ IF readyPromise = "rejected" \/ ~webaudio.samples
       THEN /\ loads' = [loads EXCEPT ![l] = Settled(loads[l], "rejected")]
            /\ UNCHANGED <<state, sampleLoadingCount, sampleBankRegistry, sampleBankPromises,
                           audioInitPromise, audioPc, outstanding>>
       ELSE LET u == updateSampleBank(sampleBankRegistry, loads[l].id,
                       [status |-> "loading", error |-> Undefined])
                synced == IF u.found THEN syncSampleBanks(state, u.registry) ELSE state
                adj == adjustSampleLoading(sampleLoadingCount, synced, 1)
                audio == ensureAudioStart(webaudio, audioInitPromise, audioPc)
            IN /\ sampleBankRegistry' = u.registry
               /\ sampleLoadingCount' = adj.count
               /\ state' = adj.state
               /\ audioInitPromise' = audio.audioInitPromise
               /\ audioPc' = audio.audioPc
               /\ outstanding' = [outstanding EXCEPT !.unlock = @ + audio.started]
               /\ loads' = [loads EXCEPT ![l].pc = "audio"]
               /\ UNCHANGED sampleBankPromises
  /\ UNCHANGED <<readyPromise, initPc, webaudio, repl, sampleLoadPromise, samplePc,
                 highlightVars, processVars, globalVars, invocations, observerVars>>

\* `await this.ensureAudio()` returns or throws; then the samples primitive is
\* called with the prepared source
LoadAfterAudio(l) ==
  /\ l \in DOMAIN loads
  /\ loads[l].pc = "audio"
  /\ audioInitPromise \in {"resolved"} \cup AudioRejections
  /\ IF audioInitPromise \in AudioRejections
       THEN LET u == updateSampleBank(sampleBankRegistry, loads[l].id,
                       [status |-> "error", error |-> ErrorMessage(audioInitPromise)])
                synced == IF u.found THEN syncSampleBanks(state, u.registry) ELSE state
            IN /\ LoadFinally(l, u.registry, synced)
               /\ loads' = [loads EXCEPT ![l] = Settled(loads[l], "rejected")]
       ELSE LET s == loads[l]
                preparedSource ==
                  IF s.source.kind = "map" /\ Truthy(s.meta.bankPrefix)
                    THEN [s.source EXCEPT
                            !.keys = augmentSampleMapWithPrefix(s.source.keys, s.meta.bankPrefix)]
                    ELSE s.source
            IN /\ loads' = [loads EXCEPT
                              ![l].pc = "samples",
                              ![l].call = [made |-> TRUE, source |-> preparedSource,
                                           baseUrl |-> s.meta.baseUrl, tag |-> s.meta.tag,
                                           prebake |-> s.meta.prebake]]
               /\ UNCHANGED <<state, sampleLoadingCount, sampleBankRegistry, sampleBankPromises>>
  /\ UNCHANGED <<readyPromise, initPc, webaudio, repl, audioInitPromise, audioPc,
                 sampleLoadPromise, samplePc, highlightVars, processVars, globalVars, facadeVars>>

\* the samples primitive resolves or rejects
LoadSamplesSettle(l, ok) ==
  /\ l \in DOMAIN loads
  /\ loads[l].pc = "samples"
  /\ LET u == updateSampleBank(sampleBankRegistry, loads[l].id,
                IF ok THEN [status |-> "ready", loadedAt |-> <<now>>]
                ELSE [status |-> "error", error |-> ErrorMessage("samples failed")])
         synced == IF u.found THEN syncSampleBanks(state, u.registry) ELSE state
     IN LoadFinally(l, u.registry, synced)
  /\ loads' = [loads EXCEPT ![l] = Settled(loads[l], IF ok THEN "resolved" ELSE "rejected")]
  /\ UNCHANGED <<readyPromise, initPc, webaudio, repl, audioInitPromise, audioPc,
                 sampleLoadPromise, samplePc, highlightVars, processVars, globalVars, facadeVars>>

(***************************************************************************)
(* The bootstrap sample-pack load: loadSamples(DIRT_SAMPLE_SOURCE)         *)
(***************************************************************************)
\* loadSamples() up to its return; awaits says what the caller then waits
\* for: nothing ("return"), or the shared promise ("promise")
loadSamplesStart_Skip(wa, st, slp, spc, count) ==
  [sampleLoadPromise |-> slp, samplePc |-> spc, count |-> count, state |-> st,
   awaits |-> "return"]
loadSamplesStart(wa, st, slp, spc, count) ==
  IF ~wa.samples \/ st.samplesLoaded
    THEN [sampleLoadPromise |-> slp, samplePc |-> spc, count |-> count, state |-> st,
          awaits |-> "return"]
  ELSE IF slp # "none"
    THEN [sampleLoadPromise |-> slp, samplePc |-> spc, count |-> count, state |-> st,
          awaits |-> "promise"]
  ELSE LET adj == adjustSampleLoading(count, st, 1)
       IN [sampleLoadPromise |-> "pending", samplePc |-> "audioInitPromise",
           count |-> adj.count, state |-> adj.state, awaits |-> "promise"]

\* `await this.audioInitPromise` returns or throws; then the samples primitive
\* is called with the bootstrap source
DirtAfterAudio ==
  /\ samplePc = "audioInitPromise"
  /\ audioInitPromise \in {"none", "resolved"} \cup AudioRejections
  /\ IF audioInitPromise \in AudioRejections
       THEN LET failed == setState(state, [error |-> ErrorMessage(audioInitPromise)])
                adj == adjustSampleLoading(sampleLoadingCount, failed, -1)
            IN /\ state' = adj.state
               /\ sampleLoadingCount' = adj.count
               /\ sampleLoadPromise' = "rejected"
               /\ samplePc' = "failed"
               /\ UNCHANGED outstanding
       ELSE /\ samplePc' = "samples"
            /\ outstanding' = [outstanding EXCEPT !.bootstrap = @ + 1]
            /\ UNCHANGED <<state, sampleLoadingCount, sampleLoadPromise>>
  /\ UNCHANGED <<readyPromise, initPc, webaudio, repl, audioInitPromise, audioPc,
                 bankVars, highlightVars, processVars, globalVars, invocations, observerVars>>

\* the samples primitive settles for the bootstrap source
DirtSamplesSettle(ok) ==
  /\ samplePc = "samples"
  /\ LET after == setState(state,
                    IF ok THEN [samplesLoaded |-> TRUE]
                    ELSE [error |-> ErrorMessage("samples failed")])
         adj == adjustSampleLoading(sampleLoadingCount, after, -1)
     IN /\ state' = adj.state
        /\ sampleLoadingCount' = adj.count
  /\ sampleLoadPromise' = IF ok THEN "resolved" ELSE "rejected"
  /\ samplePc' = IF ok THEN "done" ELSE "failed"
  /\ outstanding' = [outstanding EXCEPT !.bootstrap = @ - 1]
  /\ UNCHANGED <<readyPromise, initPc, webaudio, repl, audioInitPromise, audioPc,
                 bankVars, highlightVars, processVars, globalVars, invocations, observerVars>>

(***************************************************************************)
(* The per-event output hook, the decrement timers, stop and dispose       *)
(***************************************************************************)
\* a hook invocation that has returned or thrown: its locals are dead
NoHap(outcome) == [locations |-> <<>>, duration |-> 0, pc |-> outcome]

\* the scheduler hands an event to highlightOutput, which calls ensureAudio()
HighlightOutput(locations, durationTenths) ==
  /\ repl
  /\ Len(haps) < MaxHaps
  /\ LET audio == ensureAudioStart(webaudio, audioInitPromise, audioPc)
     IN /\ audioInitPromise' = audio.audioInitPromise
        /\ audioPc' = audio.audioPc
        /\ outstanding' = [outstanding EXCEPT !.unlock = @ + audio.started]
  /\ haps' = Append(haps, [locations |-> locations, duration |-> durationTenths,
                           pc |-> "ensureAudio"])
  /\ UNCHANGED <<state, readyPromise, initPc, webaudio, repl, sampleLoadPromise, samplePc,
                 sampleLoadingCount, bankVars, activeMap, timers, now, disposed,
                 processVars, globalVars, invocations, observerVars>>

\* `await this.ensureAudio()` returns or throws; then loadSamples() is called
HookAfterAudio(h) ==
  /\ h \in DOMAIN haps
  /\ haps[h].pc = "ensureAudio"
  /\ audioInitPromise \in {"none", "resolved"} \cup AudioRejections
  /\ IF audioInitPromise \in AudioRejections
       THEN /\ haps' = [haps EXCEPT ![h] = NoHap("rejected")]
            /\ UNCHANGED <<state, sampleLoadPromise, samplePc, sampleLoadingCount>>
       ELSE LET ls == loadSamplesStart(webaudio, state, sampleLoadPromise, samplePc,
                                       sampleLoadingCount)
            IN /\ sampleLoadPromise' = ls.sampleLoadPromise
               /\ samplePc' = ls.samplePc
               /\ sampleLoadingCount' = ls.count
               /\ state' = ls.state
               /\ haps' = [haps EXCEPT ![h].pc =
                             IF ls.awaits = "return" THEN "loadSamples returned"
                             ELSE "loadSamples"]
  /\ UNCHANGED <<readyPromise, initPc, webaudio, repl, audioInitPromise, audioPc,
                 bankVars, activeMap, timers, now, disposed, processVars, globalVars, facadeVars>>

\* `await this.loadSamples(...)` returns or throws; then sendHighlights runs
\* and the event goes to the audio-output primitive
HookAfterSamples(h) ==
  /\ h \in DOMAIN haps
  /\ \/ haps[h].pc = "loadSamples returned"
     \/ haps[h].pc = "loadSamples" /\ sampleLoadPromise \in {"resolved", "rejected"}
  /\ IF haps[h].pc = "loadSamples" /\ sampleLoadPromise = "rejected"
       THEN /\ haps' = [haps EXCEPT ![h] = NoHap("rejected")]
            /\ UNCHANGED <<state, activeMap, timers>>
       ELSE LET r == sendHighlights(activeMap, state, timers, haps[h].locations,
                                    haps[h].duration, now)
            IN /\ activeMap' = r.activeMap
               /\ state' = r.state
               /\ timers' = r.timers
               /\ haps' = [haps EXCEPT ![h] = NoHap("output")]
  /\ UNCHANGED <<readyPromise, initPc, webaudio, repl, audioInitPromise, audioPc,
                 sampleLoadPromise, samplePc, sampleLoadingCount, bankVars, now, disposed,
                 processVars, globalVars, facadeVars>>

PendingTimers == {i \in DOMAIN timers : ~timers[i].fired}

\* the clock reaches the deadline of a pending timer
Tick(i) ==
  /\ i \in PendingTimers
  /\ timers[i].fireAt > now
  /\ now' = timers[i].fireAt
  /\ UNCHANGED <<engineVars, bankVars, activeMap, timers, haps, disposed, processVars, globalVars, facadeVars>>

\* the platform runs a due timer: the earliest deadline first, the earlier
\* setTimeout call first among equal deadlines
FireTimer(i) ==
  /\ i \in PendingTimers
  /\ timers[i].fireAt <= now
  /\ \A j \in PendingTimers :
       timers[j].fireAt > timers[i].fireAt \/ (timers[j].fireAt = timers[i].fireAt /\ j >= i)
  /\ LET r == ReleaseRanges(activeMap, state, timers[i].keys)
     IN /\ activeMap' = r.activeMap
        /\ state' = r.state
  /\ timers' = [timers EXCEPT ![i].fired = TRUE]
  /\ UNCHANGED <<readyPromise, initPc, webaudio, repl, audioInitPromise, audioPc,
                 sampleLoadPromise, samplePc, sampleLoadingCount, bankVars, haps, now,
                 disposed, processVars, globalVars, facadeVars>>

\* the REPL starts its scheduler: repl.start() in start(), or
\* repl.evaluate(code, autostart)
StartTransport ==
  /\ repl
  /\ ~transport
  /\ transport' = TRUE
  /\ UNCHANGED <<engineVars, bankVars, highlightVars, processVars, routingVars,
                 resolverVars, bridgeVars, contextClosed, facadeVars>>

\* stop(): the transport is told to stop and the active ranges are cleared
Stop ==
  /\ LET r == clearActiveLocations(activeMap, state)
     IN /\ activeMap' = r.activeMap
        /\ state' = r.state
  /\ transport' = FALSE
  /\ UNCHANGED <<readyPromise, initPc, webaudio, repl, audioInitPromise, audioPc,
                 sampleLoadPromise, samplePc, sampleLoadingCount, bankVars, timers, haps,
                 now, disposed, processVars, routingVars, resolverVars, bridgeVars,
                 contextClosed, facadeVars>>

\* dispose(): stop(), the listeners and the map are cleared, the audio context
\* is closed
Dispose ==
  /\ LET r == clearActiveLocations(activeMap, state)
         notified == listeners # <<>> /\ r.state # state
     IN /\ activeMap' = <<>>
        /\ state' = r.state
        /\ snapshots' = IF notified THEN Append(snapshots, r.state) ELSE snapshots
        /\ subscribers' =
             [f \in DOMAIN subscribers |->
                [(IF notified THEN emit(listeners, subscribers, Len(snapshots) + 1)
                  ELSE subscribers)[f] EXCEPT !.cleared = TRUE]]
  /\ listeners' = <<>>
  /\ disposed' = TRUE
  /\ transport' = FALSE
  /\ contextClosed' = (contextClosed \/ (state.audioUnlocked /\ webaudio.loaded))
  /\ UNCHANGED <<readyPromise, initPc, webaudio, repl, audioInitPromise, audioPc,
                 sampleLoadPromise, samplePc, sampleLoadingCount, bankVars, timers, haps,
                 now, processVars, routingVars, resolverVars, bridgeVars, invocations,
                 outstanding>>

\* subscribe(listener): the listener joins the set and is called with the
\* current snapshot
Subscribe(f) ==
  /\ Len(subscribers[f].received) < MaxDeliveries
  /\ listeners' = IF \E i \in DOMAIN listeners : listeners[i] = f THEN listeners
                  ELSE Append(listeners, f)
  /\ subscribers' = [subscribers EXCEPT
                       ![f] = [received |-> Append(@.received, Len(snapshots)),
                               open |-> TRUE, cleared |-> FALSE]]
  /\ UNCHANGED <<engineVars, bankVars, highlightVars, processVars, globalVars, invocations,
                 outstanding, snapshots>>

\* a function returned by subscribe(listener) is called
Unsubscribe(f) ==
  /\ subscribers[f].received # <<>>
  /\ listeners' = SelectSeq(listeners, LAMBDA g : g # f)
  /\ subscribers' = [subscribers EXCEPT ![f].open = FALSE]
  /\ UNCHANGED <<engineVars, bankVars, highlightVars, processVars, globalVars, invocations,
                 outstanding, snapshots>>

\* the update record of a StateUpdate
UpdateOf(u) == [key \in u.keys |-> u.values[key]]

\* a handler calls setState(update)
SetState(u) ==
  /\ Len(snapshots) < MaxSnapshots
  /\ IF u.keys = {} \/ ~stateChanged(state, UpdateOf(u))
       THEN UNCHANGED <<state, snapshots, subscribers>>
       ELSE /\ state' = setState(state, UpdateOf(u))
            /\ snapshots' = Append(snapshots, state')
            /\ subscribers' = emit(listeners, subscribers, Len(snapshots) + 1)
  /\ UNCHANGED <<readyPromise, initPc, webaudio, repl, audioInitPromise, audioPc,
                 sampleLoadPromise, samplePc, sampleLoadingCount, bankVars, highlightVars,
                 processVars, globalVars, invocations, outstanding, listeners>>

\* what the scheduler hands to onUpdateState: evalError and schedulerError are
\* undefined, an Error or a string; miniLocations is an array or absent
NoValue == [kind |-> "undefined", text |-> <<>>]
ErrorValue(name) == [kind |-> "Error", text |-> ErrorMessage(name)]
StringValue(text) == [kind |-> "string", text |-> text]
NoArray == [isArray |-> FALSE, items |-> <<>>]
ArrayOf(items) == [isArray |-> TRUE, items |-> items]
TruthyValue(v) == v.kind = "Error" \/ (v.kind = "string" /\ v.text # <<>>)
NoReplState ==
  [started |-> FALSE, pending |-> FALSE, evalError |-> NoValue,
   schedulerError |-> NoValue, miniLocations |-> NoArray]
ReplStates ==
  {NoReplState,
   [NoReplState EXCEPT !.started = TRUE, !.miniLocations = ArrayOf(<<>>)],
   [NoReplState EXCEPT !.started = TRUE, !.miniLocations = ArrayOf(<<Range1020>>)],
   [NoReplState EXCEPT !.started = TRUE, !.miniLocations = ArrayOf(<<<<10, 20, 7>>>>)],
   [NoReplState EXCEPT !.started = TRUE, !.miniLocations = ArrayOf(<<<<10, 21>>>>)],
   [NoReplState EXCEPT !.started = TRUE,
                       !.miniLocations = ArrayOf(<<Range1020, Range05>>)],
   [NoReplState EXCEPT !.pending = TRUE,
                       !.miniLocations = ArrayOf(<<Range05, Range1020>>)],
   [NoReplState EXCEPT !.evalError = ErrorValue("eval")],
   [NoReplState EXCEPT !.started = TRUE, !.evalError = StringValue(<<>>),
                       !.schedulerError = StringValue(<<"tick">>),
                       !.miniLocations = ArrayOf(<<Range1020>>)]}

\* the REPL states that carry no error
QuietReplStates == {NoReplState, [NoReplState EXCEPT !.started = TRUE]}

\* next.miniLocations.map((loc) => [loc[0], loc[1]])
CopyLocations(items) == [i \in DOMAIN items |-> <<items[i][1], items[i][2]>>]

\* handleStateUpdate: the update it hands to setState
handleStateUpdate(st, next) ==
  LET miniLocations == IF next.miniLocations.isArray
                         THEN CopyLocations(next.miniLocations.items)
                         ELSE st.miniLocations
      errorSource == IF TruthyValue(next.evalError) THEN next.evalError
                     ELSE IF TruthyValue(next.schedulerError) THEN next.schedulerError
                     ELSE NoValue
      errorMessage == IF TruthyValue(errorSource) THEN errorSource.text ELSE Undefined
      update == [isPlaying |-> next.started, isEvaluating |-> next.pending,
                 error |-> errorMessage]
  IN IF ~rangesEqual(st.miniLocations, miniLocations)
       THEN Spread(update, [miniLocations |-> miniLocations])
       ELSE update

\* the scheduler calls onUpdateState(next)
HandleStateUpdate(next) ==
  /\ Len(snapshots) < MaxSnapshots
  /\ LET update == handleStateUpdate(state, next)
     IN IF ~stateChanged(state, update)
          THEN UNCHANGED <<state, snapshots, subscribers>>
          ELSE /\ state' = setState(state, update)
               /\ snapshots' = Append(snapshots, state')
               /\ subscribers' = emit(listeners, subscribers, Len(snapshots) + 1)
  /\ UNCHANGED <<readyPromise, initPc, webaudio, repl, audioInitPromise, audioPc,
                 sampleLoadPromise, samplePc, sampleLoadingCount, bankVars, highlightVars,
                 processVars, globalVars, invocations, outstanding, listeners>>

(***************************************************************************)
(* The callers of the one instance: evaluate(), start(), setTempo()        *)
(***************************************************************************)
\* an invocation that has thrown; error is what it threw
Thrown(inv, message) == [inv EXCEPT !.pc = "rejected", !.error = message]

\* !code.trim()
isBlank_NoTrim(code) == code = <<>>
isBlank(code) == trim(code) = <<>>

\* evaluate(code) up to its first await: blank code stops the transport and
\* returns, any other code calls init()
Evaluate(code) ==
  IF isBlank(code)
    THEN Stop
    ELSE /\ Len(invocations) < MaxInvocations
         /\ readyPromise' = initStart(readyPromise, initPc).readyPromise
         /\ initPc' = initStart(readyPromise, initPc).initPc
         /\ invocations' = Append(invocations,
              [kind |-> "evaluate", pc |-> "init", code |-> code, error |-> Undefined])
         /\ UNCHANGED <<state, webaudio, repl, audioInitPromise, audioPc, sampleLoadPromise,
                        samplePc, sampleLoadingCount, bankVars, highlightVars, processVars, globalVars,
                        outstanding, observerVars>>

\* `await this.init()` of evaluate() returns or throws; then the error is
\* reset and the code is handed to the REPL
EvaluateAfterReady(c) ==
  /\ c \in DOMAIN invocations
  /\ invocations[c].kind = "evaluate"
  /\ invocations[c].pc = "init"
  /\ readyPromise \in {"resolved", "rejected"}
  /\ IF readyPromise = "rejected"
       THEN /\ invocations' = [invocations EXCEPT
                                 ![c] = Thrown(@, ErrorMessage("init failed"))]
            /\ UNCHANGED state
     ELSE IF ~repl
       THEN /\ invocations' = [invocations EXCEPT
                                 ![c] = Thrown(@, ErrorMessage("Strudel REPL is not ready"))]
            /\ UNCHANGED state
     ELSE /\ state' = setState(state, [error |-> Undefined])
          /\ invocations' = [invocations EXCEPT ![c].pc = "repl.evaluate"]
  /\ UNCHANGED <<readyPromise, initPc, webaudio, repl, audioInitPromise, audioPc,
                 sampleLoadPromise, samplePc, sampleLoadingCount, bankVars, highlightVars,
                 processVars, globalVars, outstanding, observerVars>>

\* the REPL's evaluate settles
EvaluateSettle(c, ok) ==
  /\ c \in DOMAIN invocations
  /\ invocations[c].pc = "repl.evaluate"
  /\ IF ok
       THEN /\ invocations' = [invocations EXCEPT ![c].pc = "resolved"]
            /\ UNCHANGED state
       ELSE /\ state' = setState(state, [error |-> ErrorMessage("evaluate failed")])
            /\ invocations' = [invocations EXCEPT
                                 ![c] = Thrown(@, ErrorMessage("evaluate failed"))]
  /\ UNCHANGED <<readyPromise, initPc, webaudio, repl, audioInitPromise, audioPc,
                 sampleLoadPromise, samplePc, sampleLoadingCount, bankVars, highlightVars,
                 processVars, globalVars, outstanding, observerVars>>

\* start() up to its first await
Start ==
  /\ Len(invocations) < MaxInvocations
  /\ readyPromise' = initStart(readyPromise, initPc).readyPromise
  /\ initPc' = initStart(readyPromise, initPc).initPc
  /\ invocations' = Append(invocations,
       [kind |-> "start", pc |-> "init", code |-> <<>>, error |-> Undefined])
  /\ UNCHANGED <<state, webaudio, repl, audioInitPromise, audioPc, sampleLoadPromise,
                 samplePc, sampleLoadingCount, bankVars, highlightVars, processVars, globalVars,
                 outstanding, observerVars>>

\* `await this.init()` of start() returns or throws; then ensureAudio() is
\* called
StartAfterInit(c) ==
  /\ c \in DOMAIN invocations
  /\ invocations[c].kind = "start"
  /\ invocations[c].pc = "init"
  /\ readyPromise \in {"resolved", "rejected"}
  /\ IF readyPromise = "rejected"
       THEN /\ invocations' = [invocations EXCEPT
                                 ![c] = Thrown(@, ErrorMessage("init failed"))]
            /\ UNCHANGED <<audioInitPromise, audioPc, outstanding>>
       ELSE LET audio == ensureAudioStart(webaudio, audioInitPromise, audioPc)
            IN /\ audioInitPromise' = audio.audioInitPromise
               /\ audioPc' = audio.audioPc
               /\ outstanding' = [outstanding EXCEPT !.unlock = @ + audio.started]
               /\ invocations' = [invocations EXCEPT ![c].pc = "ensureAudio"]
  /\ UNCHANGED <<state, readyPromise, initPc, webaudio, repl, sampleLoadPromise, samplePc,
                 sampleLoadingCount, bankVars, highlightVars, processVars, globalVars, observerVars>>

\* `await this.ensureAudio()` of start() returns or throws; then
\* loadSamples() is called
StartAfterAudio(c) ==
  /\ c \in DOMAIN invocations
  /\ invocations[c].pc = "ensureAudio"
  /\ audioInitPromise \in {"none", "resolved"} \cup AudioRejections
  /\ IF audioInitPromise \in AudioRejections
       THEN /\ invocations' = [invocations EXCEPT
                                 ![c] = Thrown(@, ErrorMessage(audioInitPromise))]
            /\ UNCHANGED <<state, sampleLoadPromise, samplePc, sampleLoadingCount>>
       ELSE LET ls == loadSamplesStart(webaudio, state, sampleLoadPromise, samplePc,
                                       sampleLoadingCount)
            IN /\ sampleLoadPromise' = ls.sampleLoadPromise
               /\ samplePc' = ls.samplePc
               /\ sampleLoadingCount' = ls.count
               /\ state' = ls.state
               /\ invocations' = [invocations EXCEPT ![c].pc =
                                    IF ls.awaits = "return" THEN "loadSamples returned"
                                    ELSE "loadSamples"]
  /\ UNCHANGED <<readyPromise, initPc, webaudio, repl, audioInitPromise, audioPc,
                 bankVars, highlightVars, processVars, globalVars, outstanding, observerVars>>

\* `await this.loadSamples(...)` of start() returns or throws; then the
\* REPL's start is called, which may throw
StartAfterSamples(c, ok) ==
  /\ c \in DOMAIN invocations
  /\ \/ invocations[c].pc = "loadSamples returned"
     \/ invocations[c].pc = "loadSamples" /\ sampleLoadPromise \in {"resolved", "rejected"}
  /\ IF invocations[c].pc = "loadSamples" /\ sampleLoadPromise = "rejected"
       THEN /\ invocations' = [invocations EXCEPT
                                 ![c] = Thrown(@, ErrorMessage("samples failed"))]
            /\ UNCHANGED state
     ELSE IF ok
       THEN /\ invocations' = [invocations EXCEPT ![c].pc = "resolved"]
            /\ UNCHANGED state
     ELSE /\ state' = setState(state, [error |-> ErrorMessage("start failed")])
          /\ invocations' = [invocations EXCEPT
                               ![c] = Thrown(@, ErrorMessage("start failed"))]
  /\ UNCHANGED <<readyPromise, initPc, webaudio, repl, audioInitPromise, audioPc,
                 sampleLoadPromise, samplePc, sampleLoadingCount, bankVars, highlightVars,
                 processVars, globalVars, outstanding, observerVars>>

\* setTempo: the snapshot with the clamped tempo (the REPL is given the same
\* value as cycles per second)
setTempo(st, bpm) ==
  setState(st, [bpm |-> MathMin(Num(240), MathMax(Num(40), bpm))])

SetTempo(bpm) ==
  /\ state' = setTempo(state, bpm)
  /\ UNCHANGED <<readyPromise, initPc, webaudio, repl, audioInitPromise, audioPc,
                 sampleLoadPromise, samplePc, sampleLoadingCount, bankVars, highlightVars,
                 processVars, globalVars, facadeVars>>

\* the REPL's beforeStart hook: () => this.ensureAudio()
BeforeStart ==
  /\ repl
  /\ LET audio == ensureAudioStart(webaudio, audioInitPromise, audioPc)
     IN /\ audioInitPromise' = audio.audioInitPromise
        /\ audioPc' = audio.audioPc
        /\ outstanding' = [outstanding EXCEPT !.unlock = @ + audio.started]
  /\ UNCHANGED <<state, readyPromise, initPc, webaudio, repl, sampleLoadPromise, samplePc,
                 sampleLoadingCount, bankVars, highlightVars, processVars, globalVars, invocations, observerVars>>

(***************************************************************************)
(* Several instances over the process-wide module cache                    *)
(* (src/unnamed/part_002, init and evaluate)                               *)
(***************************************************************************)
\* new StrudelEngine()
NewEngineState ==
  [readyPromise |-> "none", bodyPc |-> "idle", webaudio |-> FALSE, repl |-> FALSE,
   isReady |-> FALSE, evalScopeCalls |-> 0, bundledLoads |-> 0]

\* a check of the cache that never waits for a load in flight
initPath_IgnoreLoadPromise(rp, cache) ==
  IF rp # "none" THEN "ready"
  ELSE IF cache.cached THEN "cached"
  ELSE "load"

\* the branch init() takes: the instance's promise exists, the modules are
\* cached, another instance is loading them, or they must be loaded
initPath(rp, cache) ==
  IF rp # "none" THEN "ready"
  ELSE IF cache.cached THEN "cached"
  ELSE IF cache.loadPromise # "none" THEN "wait"
  ELSE "load"

\* the cached-module branches: the instance takes the modules of the cache and
\* calls evalScope, unless the transpiler module has no transpiler function
useCachedModules(engine, cache) ==
  IF ~cache.transpiler THEN [engine EXCEPT !.webaudio = TRUE]
  ELSE [engine EXCEPT !.webaudio = TRUE, !.evalScopeCalls = @ + 1]

\* init() or the `await this.init()` of evaluate(), up to its first await
StartInit(e, kind) ==
  LET path == initPath(engines[e].readyPromise, moduleCache)
      c == Len(calls) + 1
  IN /\ e \in DOMAIN engines
     /\ c <= MaxCalls
     /\ IF path = "ready"
          THEN /\ calls' = Append(calls, [engine |-> e, kind |-> kind, pc |-> "readyPromise"])
               /\ UNCHANGED <<engines, moduleCache, moduleLoads>>
        ELSE IF path = "cached"
          THEN /\ engines' = [engines EXCEPT ![e] = useCachedModules(engines[e], moduleCache)]
               /\ calls' = Append(calls,
                    [engine |-> e, kind |-> kind,
                     pc |-> IF moduleCache.transpiler THEN "evalScope" ELSE "rejected"])
               /\ UNCHANGED <<moduleCache, moduleLoads>>
        ELSE IF path = "wait"
          THEN /\ calls' = Append(calls, [engine |-> e, kind |-> kind, pc |-> "loadPromise"])
               /\ UNCHANGED <<engines, moduleCache, moduleLoads>>
        ELSE /\ moduleCache' = [moduleCache EXCEPT !.loadPromise = "pending"]
             /\ moduleLoads' = moduleLoads + 1
             /\ engines' = [engines EXCEPT ![e].readyPromise = "pending",
                                           ![e].bodyPc = "loadPromise"]
             /\ calls' = Append(calls, [engine |-> e, kind |-> kind, pc |-> "readyPromise"])
     /\ UNCHANGED <<engineVars, bankVars, highlightVars, facadeVars, globalVars>>

NewEngine ==
  /\ Len(engines) < MaxEngines
  /\ engines' = Append(engines, NewEngineState)
  /\ UNCHANGED <<engineVars, bankVars, highlightVars, facadeVars, globalVars, moduleCache, calls, moduleLoads>>

EngineInit(e) == StartInit(e, "init")

\* evaluate(code) with code that is not blank
EngineEvaluate(e) == StartInit(e, "evaluate")

\* the eight imports of the module-load step settle; all modules are cached
\* together
ModulesSettle(ok, hasTranspiler) ==
  /\ moduleCache.loadPromise = "pending"
  /\ moduleCache' =
       IF ok THEN [loadPromise |-> "resolved", cached |-> TRUE, transpiler |-> hasTranspiler]
       ELSE [moduleCache EXCEPT !.loadPromise = "rejected"]
  /\ UNCHANGED <<engineVars, bankVars, highlightVars, facadeVars, globalVars, engines, calls, moduleLoads>>

\* the bootstrap body of the loading instance resumes after
\* `await cache.loadPromise`
BodyAfterLoad(e) ==
  /\ e \in DOMAIN engines
  /\ engines[e].bodyPc = "loadPromise"
  /\ moduleCache.loadPromise \in {"resolved", "rejected"}
  /\ engines' =
       IF moduleCache.loadPromise = "rejected"
         THEN [engines EXCEPT ![e].readyPromise = "rejected", ![e].bodyPc = "failed"]
       ELSE IF ~moduleCache.transpiler
         THEN [engines EXCEPT ![e].webaudio = TRUE, ![e].readyPromise = "rejected",
                              ![e].bodyPc = "failed"]
       ELSE [engines EXCEPT ![e].webaudio = TRUE, ![e].evalScopeCalls = @ + 1,
                            ![e].bodyPc = "evalScope"]
  /\ UNCHANGED <<engineVars, bankVars, highlightVars, facadeVars, globalVars, moduleCache, calls, moduleLoads>>

\* evalScope settles in the bootstrap body: the REPL is built, isReady flips
\* and the two bundled banks start loading
BodyEvalScopeSettle(e, ok) ==
  /\ e \in DOMAIN engines
  /\ engines[e].bodyPc = "evalScope"
  /\ engines' =
       IF ok
         THEN [engines EXCEPT ![e].repl = TRUE, ![e].isReady = TRUE,
                              ![e].bundledLoads = 2, ![e].readyPromise = "resolved",
                              ![e].bodyPc = "done"]
         ELSE [engines EXCEPT ![e].readyPromise = "rejected", ![e].bodyPc = "failed"]
  /\ UNCHANGED <<engineVars, bankVars, highlightVars, facadeVars, globalVars, moduleCache, calls, moduleLoads>>

\* what a call does once its init() has resolved: init() is done, evaluate()
\* goes on to its REPL check
AfterInit(kind) == IF kind = "init" THEN "resolved" ELSE "initialised"

\* a call that waited for another instance's load resumes
CallAfterLoad(c) ==
  /\ c \in DOMAIN calls
  /\ calls[c].pc = "loadPromise"
  /\ moduleCache.loadPromise \in {"resolved", "rejected"}
  /\ IF moduleCache.loadPromise = "rejected"
       THEN /\ calls' = [calls EXCEPT ![c].pc = "rejected"]
            /\ UNCHANGED engines
       ELSE /\ engines' = [engines EXCEPT ![calls[c].engine] =
                             useCachedModules(engines[calls[c].engine], moduleCache)]
            /\ calls' = [calls EXCEPT ![c].pc =
                           IF moduleCache.transpiler THEN "evalScope" ELSE "rejected"]
  /\ UNCHANGED <<engineVars, bankVars, highlightVars, facadeVars, globalVars, moduleCache, moduleLoads>>

\* evalScope settles in a cached-module branch: the instance's readyPromise
\* becomes a resolved promise and the call returns it
CallEvalScopeSettle(c, ok) ==
  /\ c \in DOMAIN calls
  /\ calls[c].pc = "evalScope"
  /\ IF ok
       THEN /\ engines' = [engines EXCEPT ![calls[c].engine].readyPromise = "resolved"]
            /\ calls' = [calls EXCEPT ![c].pc = AfterInit(calls[c].kind)]
       ELSE /\ calls' = [calls EXCEPT ![c].pc = "rejected"]
            /\ UNCHANGED engines
  /\ UNCHANGED <<engineVars, bankVars, highlightVars, facadeVars, globalVars, moduleCache, moduleLoads>>

\* a call that got the instance's readyPromise sees it settle
CallAfterReady(c) ==
  /\ c \in DOMAIN calls
  /\ calls[c].pc = "readyPromise"
  /\ engines[calls[c].engine].readyPromise \in {"resolved", "rejected"}
  /\ calls' = [calls EXCEPT ![c].pc =
                 IF engines[calls[c].engine].readyPromise = "resolved"
                   THEN AfterInit(calls[c].kind)
                   ELSE "rejected"]
  /\ UNCHANGED <<engineVars, bankVars, highlightVars, facadeVars, globalVars, moduleCache, engines, moduleLoads>>

\* evaluate() after `await this.init()`: without a REPL it throws
\* 'Strudel REPL is not ready', with one it submits the code
EvaluateAfterInit(c) ==
  /\ c \in DOMAIN calls
  /\ calls[c].pc = "initialised"
  /\ calls' = [calls EXCEPT ![c].pc =
                 IF engines[calls[c].engine].repl THEN "submitted" ELSE "not ready"]
  /\ UNCHANGED <<engineVars, bankVars, highlightVars, facadeVars, globalVars, moduleCache, engines, moduleLoads>>

(***************************************************************************)
(* The visual surface and the audio routing patch of several instances     *)
(* (src/unnamed/part_002, setScopeContainer, ensureAudio,                  *)
(* setupHydraAudioConnection, patchAudioRouting)                           *)
(***************************************************************************)
\* the fields of a new instance; importing counts the setScopeContainer calls
\* that await import('hydra-synth'), calls the ones made so far
NewScope ==
  [webaudio |-> FALSE, hydra |-> FALSE, audioSplitterGain |-> 0,
   audioRoutingPatched |-> FALSE, audioUnlocked |-> FALSE,
   audioInitPromise |-> "none", importing |-> 0, calls |-> 0]

Destination == 0

\* audioContext.createGain(): a node no connection names yet
CreateGain(g) ==
  IF g = {} THEN 1
  ELSE 1 + CHOOSE n \in {c[1] : c \in g} : \A c \in g : c[1] <= n

\* node.connect(target) under the wrappers installed so far: the outermost
\* patchedConnect replaces the destination by its splitter and the inner ones
\* pass a splitter through to the original method
ConnectTarget(wrappers, target) ==
  IF target = Destination /\ wrappers # <<>>
    THEN wrappers[Len(wrappers)]
    ELSE target

\* patchAudioRouting(): [scope, connect, graph] afterwards
patchAudioRouting(sc, wrappers, g) ==
  IF sc.audioRoutingPatched \/ sc.audioSplitterGain = 0
    THEN [scope |-> sc, connect |-> wrappers, graph |-> g]
    ELSE [scope |-> [sc EXCEPT !.audioRoutingPatched = TRUE],
          connect |-> Append(wrappers, sc.audioSplitterGain),
          graph |-> g \cup {<<sc.audioSplitterGain,
                              ConnectTarget(wrappers, Destination)>>}]

\* setupHydraAudioConnection() of an instance that has its hydra
setupHydraAudioConnection(sc, wrappers, g) ==
  LET splitter == CreateGain(g)
      connected == g \cup {<<splitter, ConnectTarget(wrappers, Destination)>>}
      withSplitter == [sc EXCEPT !.audioSplitterGain = splitter]
  IN  IF sc.audioUnlocked
        THEN patchAudioRouting(withSplitter, wrappers, connected)
        ELSE [scope |-> withSplitter, connect |-> wrappers, graph |-> connected]

RoutingFrame ==
  UNCHANGED <<engineVars, bankVars, highlightVars, processVars, facadeVars,
              resolverVars, bridgeVars, teardownVars>>

\* init() of the instance has imported the webaudio module
ScopeEngineReady(e) ==
  /\ ~scopes[e].webaudio
  /\ scopes' = [scopes EXCEPT ![e].webaudio = TRUE]
  /\ UNCHANGED <<connect, graph>>
  /\ RoutingFrame

\* setScopeContainer(element), up to await import('hydra-synth'); with a
\* hydra it only moves the canvas
SetScopeContainer(e) ==
  /\ scopes[e].calls < MaxScopeCalls
  /\ scopes' = [scopes EXCEPT ![e].calls = @ + 1,
                              ![e].importing = IF scopes[e].hydra THEN @ ELSE @ + 1]
  /\ UNCHANGED <<connect, graph>>
  /\ RoutingFrame

\* setScopeContainer, after the import: new Hydra, setupHydraAudioConnection
ScopeAfterImport(e, ok) ==
  /\ scopes[e].importing > 0
  /\ LET sc == [scopes[e] EXCEPT !.importing = @ - 1]
         r == setupHydraAudioConnection([sc EXCEPT !.hydra = TRUE], connect, graph)
     IN  IF ok
           THEN /\ scopes' = [scopes EXCEPT ![e] = r.scope]
                /\ connect' = r.connect
                /\ graph' = r.graph
           ELSE /\ scopes' = [scopes EXCEPT ![e] = sc]
                /\ UNCHANGED <<connect, graph>>
  /\ RoutingFrame

\* ensureAudio() of the instance, up to its first await
ScopeEnsureAudio(e) ==
  /\ scopes[e].webaudio
  /\ scopes[e].audioInitPromise = "none"
  /\ scopes' = [scopes EXCEPT ![e].audioInitPromise = "pending"]
  /\ UNCHANGED <<connect, graph>>
  /\ RoutingFrame

\* the unlock body after its awaits: audioUnlocked, patchAudioRouting
ScopeAudioSettle(e, ok) ==
  /\ scopes[e].audioInitPromise = "pending"
  /\ LET r == patchAudioRouting(
                [scopes[e] EXCEPT !.audioUnlocked = TRUE,
                                  !.audioInitPromise = "resolved"],
                connect, graph)
     IN  IF ok
           THEN /\ scopes' = [scopes EXCEPT ![e] = r.scope]
                /\ connect' = r.connect
                /\ graph' = r.graph
           ELSE /\ scopes' = [scopes EXCEPT ![e].audioInitPromise = "rejected"]
                /\ UNCHANGED <<connect, graph>>
  /\ RoutingFrame

(***************************************************************************)
(* The remote source resolver (src/src/lib/sample-pack.ts)                 *)
(***************************************************************************)
\* `${owner}/${repo}` of the repositories asked for
Repos == {"o/r", "o/s"}

\* what parseGithubInput makes of the caller's text: it throws, or gives the
\* owner, the repo and a ref that is empty or undefined without one
GithubInputs ==
  {[malformed |-> TRUE, repo |-> "o/r", ref |-> ""]} \cup
  [malformed : {FALSE}, repo : Repos, ref : {"", "dev"}]

\* response.status of the two GitHub endpoints, and what response.json()
\* gives: it rejects, or yields null or an object
StatusInputs == {200, 299, 300, 403, 500}
JsonBodies ==
  {[kind |-> "invalid", default_branch |-> "", tree |-> "none"],
   [kind |-> "null", default_branch |-> "", tree |-> "none"],
   [kind |-> "object", default_branch |-> "", tree |-> "none"],
   [kind |-> "object", default_branch |-> "master", tree |-> "none"],
   [kind |-> "object", default_branch |-> "", tree |-> "array"],
   [kind |-> "object", default_branch |-> "", tree |-> "string"]}

ResponseOk(status) == 200 <= status /\ status <= 299

\* an Error: the text of its message and the status the message carries
\* (0 where it interpolates none)
NoError == [text |-> "", status |-> 0]
ParseError == [text |-> "Expected github:owner/repo[/path]", status |-> 0]
RepoInfoError(status) == [text |-> "Failed to load repo info", status |-> status]
RateLimitError ==
  [text |-> "GitHub rate limit reached (403). Please wait a few minutes and try again.",
   status |-> 0]
TreeError(status) == [text |-> "Failed to load repository tree", status |-> status]
ProtocolError == [text |-> "Unexpected response from GitHub tree API", status |-> 0]
\* what the runtime throws: response.json() on a body that is no JSON, a
\* property read on null
JsonSyntaxError == [text |-> "SyntaxError", status |-> 0]
NullTypeError == [text |-> "TypeError", status |-> 0]

NewRequest(fn, input, pc) ==
  [fn |-> fn, repo |-> input.repo, ref |-> input.ref, pc |-> pc,
   value |-> "", error |-> NoError]
Resolved(request, value) == [request EXCEPT !.pc = "resolved", !.value = value]
Rejected(request, error) == [request EXCEPT !.pc = "rejected", !.error = error]

ResolverFrame ==
  UNCHANGED <<engineVars, bankVars, highlightVars, processVars, facadeVars,
              routingVars, bridgeVars, teardownVars>>

\* getDefaultBranch: defaultBranchCache.get(cacheKey)
cachedBranch_Never(cache, key) == ""
cachedBranch(cache, key) == cache[key]

\* resolveGithubSource(input), into getDefaultBranch up to its fetch
ResolveGithubSource(input) ==
  /\ Len(requests) < MaxRequests
  /\ LET request == NewRequest("resolve", input, "fetch")
         cached == cachedBranch(defaultBranchCache, input.repo)
     IN  IF input.malformed
           THEN /\ requests' = Append(requests, Rejected(request, ParseError))
                /\ UNCHANGED lookups
         ELSE IF input.ref # ""
           THEN /\ requests' = Append(requests, Resolved(request, input.ref))
                /\ UNCHANGED lookups
         ELSE IF cached # ""
           THEN /\ requests' = Append(requests, Resolved(request, cached))
                /\ UNCHANGED lookups
         ELSE /\ requests' = Append(requests, request)
              /\ lookups' = [lookups EXCEPT ![input.repo] = @ + 1]
  /\ UNCHANGED defaultBranchCache
  /\ ResolverFrame

\* getDefaultBranch, after await fetch(...)
BranchResponse(i, status) ==
  /\ requests[i].fn = "resolve" /\ requests[i].pc = "fetch"
  /\ requests' = [requests EXCEPT ![i] =
       IF ResponseOk(status) THEN [@ EXCEPT !.pc = "json"]
       ELSE Rejected(@, RepoInfoError(status))]
  /\ UNCHANGED <<defaultBranchCache, lookups>>
  /\ ResolverFrame

\* getDefaultBranch, after await res.json(), and the return of
\* resolveGithubSource
BranchBody(i, body) ==
  /\ requests[i].fn = "resolve" /\ requests[i].pc = "json"
  /\ LET branch == IF body.default_branch # "" THEN body.default_branch ELSE "main"
     IN  IF body.kind = "object"
           THEN /\ defaultBranchCache' =
                     [defaultBranchCache EXCEPT ![requests[i].repo] = branch]
                /\ requests' = [requests EXCEPT ![i] = Resolved(@, branch)]
           ELSE /\ requests' = [requests EXCEPT ![i] = Rejected(@,
                     IF body.kind = "null" THEN NullTypeError ELSE JsonSyntaxError)]
                /\ UNCHANGED defaultBranchCache
  /\ UNCHANGED lookups
  /\ ResolverFrame

\* fetchGithubTreeEntries(source), up to await fetch(url)
FetchGithubTreeEntries(source) ==
  /\ Len(requests) < MaxRequests
  /\ requests' = Append(requests, NewRequest("tree", source, "fetch"))
  /\ UNCHANGED <<defaultBranchCache, lookups>>
  /\ ResolverFrame

\* what fetchGithubTreeEntries makes of the response's status
treeResponse_NoRateLimit(request, status) ==
  IF ~ResponseOk(status) THEN Rejected(request, TreeError(status))
  ELSE [request EXCEPT !.pc = "json"]
treeResponse(request, status) ==
  IF status = 403 THEN Rejected(request, RateLimitError)
  ELSE IF ~ResponseOk(status) THEN Rejected(request, TreeError(status))
  ELSE [request EXCEPT !.pc = "json"]

\* fetchGithubTreeEntries, after await fetch(url)
TreeResponse(i, status) ==
  /\ requests[i].fn = "tree" /\ requests[i].pc = "fetch"
  /\ requests' = [requests EXCEPT ![i] = treeResponse(@, status)]
  /\ UNCHANGED <<defaultBranchCache, lookups>>
  /\ ResolverFrame

\* fetchGithubTreeEntries, after await response.json()
TreeBody(i, body) ==
  /\ requests[i].fn = "tree" /\ requests[i].pc = "json"
  /\ requests' = [requests EXCEPT ![i] =
       IF body.kind = "invalid" THEN Rejected(@, JsonSyntaxError)
       ELSE IF body.kind = "null" THEN Rejected(@, NullTypeError)
       ELSE IF body.tree # "array" THEN Rejected(@, ProtocolError)
       ELSE Resolved(@, "tree")]
  /\ UNCHANGED <<defaultBranchCache, lookups>>
  /\ ResolverFrame

(***************************************************************************)
(* The pending import bridge (src/src/lib/sample-bank-bridge.ts) and the   *)
(* workspace effect that listens to it                                     *)
(* (src/src/components/live-coding-workspace.tsx). Both run in the         *)
(* browser only, from a click handler and from an effect, so window is     *)
(* defined. An optional value is a sequence of at most one element.        *)
(***************************************************************************)
NoItem == <<>>

PendingPacks ==
  {[label |-> <<"a">>, baseUrl |-> <<>>, map |-> <<"m1">>],
   [label |-> <<"b">>, baseUrl |-> <<"u">>, map |-> <<"m2">>],
   [label |-> <<"">>, baseUrl |-> <<"">>, map |-> <<"m1">>]}

\* JSON.stringify(pack): the properties that are not undefined, in order
JSONstringify(pack) ==
  LET pairs == <<<<"label", pack.label>>, <<"baseUrl", pack.baseUrl>>,
                 <<"map", pack.map>>>>
  IN  SelectSeq(pairs, LAMBDA pair : pair[2] # <<>>)

\* JSON.parse(raw) as PendingSamplePack: a property that is not in the text
\* reads as undefined
Property(raw, key) ==
  LET hits == {i \in DOMAIN raw : raw[i][1] = key}
  IN  IF hits = {} THEN <<>> ELSE raw[CHOOSE i \in hits : TRUE][2]
JSONparse(raw) ==
  [label |-> Property(raw, "label"), baseUrl |-> Property(raw, "baseUrl"),
   map |-> Property(raw, "map")]

\* consumePendingSamplePack(): [pack, localStorage], pack being <<>> for null
consumePendingSamplePack_KeepItem(store) ==
  IF store = NoItem THEN [pack |-> <<>>, localStorage |-> store]
  ELSE [pack |-> <<JSONparse(store)>>, localStorage |-> store]
consumePendingSamplePack(store) ==
  IF store = NoItem THEN [pack |-> <<>>, localStorage |-> store]
  ELSE [pack |-> <<JSONparse(store)>>, localStorage |-> NoItem]

\* handleImport of listener l on [localStorage, consumed, imports]:
\* engine.loadSampleBank(pack.map, {label, baseUrl}) is recorded by its
\* arguments, the load itself being the registry's
handleImport(l, b) ==
  LET r == consumePendingSamplePack(b.localStorage)
  IN  [localStorage |-> r.localStorage,
       consumed |-> Append(b.consumed, [by |-> l, pack |-> r.pack]),
       imports |-> IF r.pack = <<>> THEN b.imports
                   ELSE Append(b.imports, r.pack[1])]

\* window.dispatchEvent: the listeners run in the order they were added
RECURSIVE dispatchEvent(_, _)
dispatchEvent(ls, b) ==
  IF ls = <<>> THEN b
  ELSE dispatchEvent(Tail(ls), handleImport(Head(ls), b))

Bridge == [localStorage |-> localStorage, consumed |-> consumed, imports |-> imports]

BridgeFrame ==
  UNCHANGED <<engineVars, bankVars, highlightVars, processVars, facadeVars,
              routingVars, resolverVars, teardownVars>>

\* savePendingSamplePack(pack)
SavePendingSamplePack(pack) ==
  /\ Len(consumed) + Len(importListeners) <= MaxConsumes
  /\ LET b == dispatchEvent(importListeners,
                            [Bridge EXCEPT !.localStorage = JSONstringify(pack)])
     IN  /\ localStorage' = b.localStorage
         /\ consumed' = b.consumed
         /\ imports' = b.imports
  /\ UNCHANGED importListeners
  /\ BridgeFrame

\* the effect of a mounting workspace: handleImport(), addEventListener
MountWorkspace ==
  /\ Len(consumed) < MaxConsumes
  /\ LET l == Len(consumed) + 1
         b == handleImport(l, Bridge)
     IN  /\ localStorage' = b.localStorage
         /\ consumed' = b.consumed
         /\ imports' = b.imports
         /\ importListeners' = Append(importListeners, l)
  /\ BridgeFrame

\* the effect's cleanup: removeEventListener
UnmountWorkspace(l) ==
  /\ \E i \in DOMAIN importListeners : importListeners[i] = l
  /\ importListeners' = SelectSeq(importListeners, LAMBDA other : other # l)
  /\ UNCHANGED <<localStorage, consumed, imports>>
  /\ BridgeFrame

(***************************************************************************)
(* Specifications                                                          *)
(***************************************************************************)
Init ==
  /\ state = InitialState
  /\ readyPromise = "none"
  /\ initPc = "idle"
  /\ webaudio = [loaded |-> FALSE, samples |-> FALSE]
  /\ repl = FALSE
  /\ audioInitPromise = "none"
  /\ audioPc = "idle"
  /\ sampleLoadPromise = "none"
  /\ samplePc = "idle"
  /\ sampleLoadingCount = 0
  /\ sampleBankPromises = EmptyMap
  /\ sampleBankRegistry = <<>>
  /\ loads = <<>>
  /\ activeMap = <<>>
  /\ timers = <<>>
  /\ haps = <<>>
  /\ now = 0
  /\ disposed = FALSE
  /\ moduleCache = [loadPromise |-> "none", cached |-> FALSE, transpiler |-> FALSE]
  /\ engines = <<>>
  /\ calls = <<>>
  /\ moduleLoads = 0
  /\ invocations = <<>>
  /\ outstanding = [unlock |-> 0, bootstrap |-> 0]
  /\ listeners = <<>>
  /\ snapshots = <<InitialState>>
  /\ subscribers = [f \in 1..MaxListeners |->
                      [received |-> <<>>, open |-> FALSE, cleared |-> FALSE]]
  /\ scopes = [e \in 1..MaxEngines |-> NewScope]
  /\ connect = <<>>
  /\ graph = {}
  /\ defaultBranchCache = [key \in Repos |-> ""]
  /\ requests = <<>>
  /\ lookups = [key \in Repos |-> 0]
  /\ localStorage = NoItem
  /\ importListeners = <<>>
  /\ consumed = <<>>
  /\ imports = <<>>
  /\ transport = FALSE
  /\ contextClosed = FALSE

\* the ids a caller passes: those of the banks it sees, and one in another
\* spelling
IdInputs == {sampleBankRegistry[i].id : i \in DOMAIN sampleBankRegistry} \cup {<<"B">>}

LoadNext ==
  \/ InitCall
  \/ \E ok \in BOOLEAN, hasSamples \in BOOLEAN, hasTranspiler \in BOOLEAN :
       InitImportsSettle(ok, hasSamples, hasTranspiler)
  \/ \E ok \in BOOLEAN : InitEvalScopeSettle(ok)
  \/ \E ok \in BOOLEAN : AudioClickSettle(ok)
  \/ \E ok \in BOOLEAN : AudioSynthSettle(ok)
  \/ \E source \in LoadSources, options \in LoadOptions : RegisterSampleBank(source, options)
  \/ \E id \in IdInputs : RemoveSampleBank(id)
  \/ \E source \in LoadSources, options \in LoadOptions : LoadSampleBank(source, options)
  \/ \E id \in IdInputs, options \in LoadOptions : LoadSampleBankById(id, options)
  \/ \E l \in 1..MaxLoads : LoadAfterInit(l)
  \/ \E l \in 1..MaxLoads : LoadAfterAudio(l)
  \/ \E l \in 1..MaxLoads, ok \in BOOLEAN : LoadSamplesSettle(l, ok)

\* playback without stop() or dispose()
PlaybackNext ==
  \/ InitCall
  \/ \E ok \in BOOLEAN, hasSamples \in BOOLEAN, hasTranspiler \in BOOLEAN :
       InitImportsSettle(ok, hasSamples, hasTranspiler)
  \/ \E ok \in BOOLEAN : InitEvalScopeSettle(ok)
  \/ \E ok \in BOOLEAN : AudioClickSettle(ok)
  \/ \E ok \in BOOLEAN : AudioSynthSettle(ok)
  \/ DirtAfterAudio
  \/ \E ok \in BOOLEAN : DirtSamplesSettle(ok)
  \/ \E locations \in HapLocations, d \in HapDurations : HighlightOutput(locations, d)
  \/ \E h \in 1..MaxHaps : HookAfterAudio(h)
  \/ \E h \in 1..MaxHaps : HookAfterSamples(h)
  \/ \E i \in 1..MaxHaps : Tick(i)
  \/ \E i \in 1..MaxHaps : FireTimer(i)

HighlightNext ==
  \/ PlaybackNext
  \/ Stop
  \/ Dispose

ProcessNext ==
  \/ NewEngine
  \/ \E e \in 1..MaxEngines : EngineInit(e)
  \/ \E e \in 1..MaxEngines : EngineEvaluate(e)
  \/ \E ok \in BOOLEAN, hasTranspiler \in BOOLEAN : ModulesSettle(ok, hasTranspiler)
  \/ \E e \in 1..MaxEngines : BodyAfterLoad(e)
  \/ \E e \in 1..MaxEngines, ok \in BOOLEAN : BodyEvalScopeSettle(e, ok)
  \/ \E c \in 1..MaxCalls : CallAfterLoad(c)
  \/ \E c \in 1..MaxCalls, ok \in BOOLEAN : CallEvalScopeSettle(c, ok)
  \/ \E c \in 1..MaxCalls : CallAfterReady(c)
  \/ \E c \in 1..MaxCalls : EvaluateAfterInit(c)

\* the callers of evaluate(), start(), setTempo() and loadSampleBank(), the
\* REPL's beforeStart hook, and the continuations they wait for
FacadeNext ==
  \/ \E ok \in BOOLEAN, hasSamples \in BOOLEAN, hasTranspiler \in BOOLEAN :
       InitImportsSettle(ok, hasSamples, hasTranspiler)
  \/ \E ok \in BOOLEAN : InitEvalScopeSettle(ok)
  \/ \E ok \in BOOLEAN : AudioClickSettle(ok)
  \/ \E ok \in BOOLEAN : AudioSynthSettle(ok)
  \/ DirtAfterAudio
  \/ \E ok \in BOOLEAN : DirtSamplesSettle(ok)
  \/ \E code \in CodeInputs : Evaluate(code)
  \/ \E c \in 1..MaxInvocations : EvaluateAfterReady(c)
  \/ \E c \in 1..MaxInvocations, ok \in BOOLEAN : EvaluateSettle(c, ok)
  \/ Start
  \/ \E c \in 1..MaxInvocations : StartAfterInit(c)
  \/ \E c \in 1..MaxInvocations : StartAfterAudio(c)
  \/ \E c \in 1..MaxInvocations, ok \in BOOLEAN : StartAfterSamples(c, ok)
  \/ BeforeStart
  \/ \E bpm \in TempoInputs : SetTempo(bpm)
  \/ LoadSampleBank(SourceAB, NoOptions)
  \/ \E l \in 1..MaxLoads : LoadAfterInit(l)
  \/ \E l \in 1..MaxLoads : LoadAfterAudio(l)
  \/ \E l \in 1..MaxLoads, ok \in BOOLEAN : LoadSamplesSettle(l, ok)

\* everything that calls ensureAudio() and loadSamples(): start(), the
\* REPL's beforeStart hook, the output hook and the bank loads
SharedNext ==
  \/ \E ok \in BOOLEAN, hasSamples \in BOOLEAN, hasTranspiler \in BOOLEAN :
       InitImportsSettle(ok, hasSamples, hasTranspiler)
  \/ \E ok \in BOOLEAN : InitEvalScopeSettle(ok)
  \/ \E ok \in BOOLEAN : AudioClickSettle(ok)
  \/ \E ok \in BOOLEAN : AudioSynthSettle(ok)
  \/ DirtAfterAudio
  \/ \E ok \in BOOLEAN : DirtSamplesSettle(ok)
  \/ Start
  \/ \E c \in 1..MaxInvocations : StartAfterInit(c)
  \/ \E c \in 1..MaxInvocations : StartAfterAudio(c)
  \/ \E c \in 1..MaxInvocations, ok \in BOOLEAN : StartAfterSamples(c, ok)
  \/ BeforeStart
  \/ LoadSampleBank(SourceAB, NoOptions)
  \/ \E l \in 1..MaxLoads : LoadAfterInit(l)
  \/ \E l \in 1..MaxLoads : LoadAfterAudio(l)
  \/ \E l \in 1..MaxLoads, ok \in BOOLEAN : LoadSamplesSettle(l, ok)
  \/ HighlightOutput(<<>>, 1)
  \/ \E h \in 1..MaxHaps : HookAfterAudio(h)
  \/ \E h \in 1..MaxHaps : HookAfterSamples(h)

\* evaluate() while the scheduler delivers events to the output hook
EvaluateNext ==
  \/ \E ok \in BOOLEAN, hasSamples \in BOOLEAN, hasTranspiler \in BOOLEAN :
       InitImportsSettle(ok, hasSamples, hasTranspiler)
  \/ \E ok \in BOOLEAN : InitEvalScopeSettle(ok)
  \/ \E ok \in BOOLEAN : AudioClickSettle(ok)
  \/ \E ok \in BOOLEAN : AudioSynthSettle(ok)
  \/ DirtAfterAudio
  \/ \E ok \in BOOLEAN : DirtSamplesSettle(ok)
  \/ \E code \in CodeInputs : Evaluate(code)
  \/ \E c \in 1..MaxInvocations : EvaluateAfterReady(c)
  \/ \E c \in 1..MaxInvocations, ok \in BOOLEAN : EvaluateSettle(c, ok)
  \/ HighlightOutput(<<Range1020>>, 1)
  \/ \E h \in 1..MaxHaps : HookAfterAudio(h)
  \/ \E h \in 1..MaxHaps : HookAfterSamples(h)

\* the subscribers and the handlers' state updates
ObserverNext ==
  \/ \E f \in 1..MaxListeners : Subscribe(f)
  \/ \E f \in 1..MaxListeners : Unsubscribe(f)
  \/ \E u \in StateUpdates : SetState(u)
  \/ Dispose

RegistryNext ==
  \/ \E source \in RegistrySources, options \in RegistryOptions :
       RegisterSampleBank(source, options)
  \/ \E id \in IdInputs : RemoveSampleBank(id)

\* the registry under callers that only register and remove banks
\* a bank that is loaded while callers register its id again, with the same
\* and with another source
ReregisterSources == {SourceAB, SourceCB}
ReregisterOptions == {NoOptions, [NoOptions EXCEPT !.id = <<"b">>]}
ReregisterNext ==
  \/ InitCall
  \/ \E ok \in BOOLEAN, hasSamples \in BOOLEAN, hasTranspiler \in BOOLEAN :
       InitImportsSettle(ok, hasSamples, hasTranspiler)
  \/ \E ok \in BOOLEAN : InitEvalScopeSettle(ok)
  \/ \E ok \in BOOLEAN : AudioClickSettle(ok)
  \/ \E ok \in BOOLEAN : AudioSynthSettle(ok)
  \/ \E source \in ReregisterSources, options \in ReregisterOptions :
       RegisterSampleBank(source, options)
  \/ LoadSampleBank(SourceAB, NoOptions)
  \/ \E l \in 1..MaxLoads : LoadAfterInit(l)
  \/ \E l \in 1..MaxLoads : LoadAfterAudio(l)
  \/ \E l \in 1..MaxLoads, ok \in BOOLEAN : LoadSamplesSettle(l, ok)

\* the subscribers and the scheduler's state-update callbacks
SchedulerNext ==
  \/ \E f \in 1..MaxListeners : Subscribe(f)
  \/ \E f \in 1..MaxListeners : Unsubscribe(f)
  \/ \E next \in ReplStates : HandleStateUpdate(next)
  \/ Dispose

SchedulerSpec == Init /\ [][SchedulerNext]_vars

\* an instance that is disposed while events wait in the output hook, timers
\* are pending and a bank load is outstanding: callers and the scheduler's
\* event delivery act before dispose(), what they left behind resumes after
\* it; two events and one bank load. dispose() is a task of its caller: it
\* does not run between the settling of the promise a hook awaits and the
\* hook's resumption
HookReady(h) ==
  \/ haps[h].pc = "ensureAudio" /\ audioInitPromise # "pending"
  \/ haps[h].pc = "loadSamples" /\ sampleLoadPromise # "pending"
  \/ haps[h].pc = "loadSamples returned"
TeardownNext ==
  \/ ~disposed /\ InitCall
  \/ \E ok \in BOOLEAN, hasSamples \in BOOLEAN : InitImportsSettle(ok, hasSamples, TRUE)
  \/ \E ok \in BOOLEAN : InitEvalScopeSettle(ok)
  \/ \E ok \in BOOLEAN : AudioClickSettle(ok)
  \/ \E ok \in BOOLEAN : AudioSynthSettle(ok)
  \/ DirtAfterAudio
  \/ \E ok \in BOOLEAN : DirtSamplesSettle(ok)
  \/ ~disposed /\ Len(haps) < 2 /\ HighlightOutput(<<Range1020>>, 1)
  \/ \E h \in 1..MaxHaps : HookAfterAudio(h)
  \/ \E h \in 1..MaxHaps : HookAfterSamples(h)
  \/ \E i \in 1..MaxHaps : Tick(i)
  \/ \E i \in 1..MaxHaps : FireTimer(i)
  \/ ~disposed /\ loads = <<>> /\ LoadSampleBank(SourceAB, NoOptions)
  \/ \E l \in 1..MaxLoads : LoadAfterInit(l)
  \/ \E l \in 1..MaxLoads : LoadAfterAudio(l)
  \/ \E l \in 1..MaxLoads, ok \in BOOLEAN : LoadSamplesSettle(l, ok)
  \/ ~disposed /\ Subscribe(1)
  \/ HandleStateUpdate([NoReplState EXCEPT !.started = TRUE])
  \/ /\ \A h \in DOMAIN haps : ~HookReady(h)
     /\ Dispose

TeardownSpec == Init /\ [][TeardownNext]_vars

\* playback that is stopped and started again: the scheduler hands events to
\* the output hook only while it runs, and what the events left behind
\* resumes whenever it is due; stop() is a task of its caller, like dispose()
RestartNext ==
  \/ InitCall
  \/ \E ok \in BOOLEAN, hasSamples \in BOOLEAN : InitImportsSettle(ok, hasSamples, TRUE)
  \/ \E ok \in BOOLEAN : InitEvalScopeSettle(ok)
  \/ \E ok \in BOOLEAN : AudioClickSettle(ok)
  \/ \E ok \in BOOLEAN : AudioSynthSettle(ok)
  \/ DirtAfterAudio
  \/ \E ok \in BOOLEAN : DirtSamplesSettle(ok)
  \/ StartTransport
  \/ \E d \in {1, 3} : transport /\ HighlightOutput(<<Range1020>>, d)
  \/ \E h \in 1..MaxHaps : HookAfterAudio(h)
  \/ \E h \in 1..MaxHaps : HookAfterSamples(h)
  \/ \E i \in 1..MaxHaps : Tick(i)
  \/ \E i \in 1..MaxHaps : FireTimer(i)
  \/ /\ \A h \in DOMAIN haps : ~HookReady(h)
     /\ Stop

RestartSpec == Init /\ [][RestartNext]_vars

\* callers of evaluate() and start() and the audio unlock record errors
\* while the scheduler reports its state
ErrorNext ==
  \/ \E ok \in BOOLEAN, hasSamples \in BOOLEAN : InitImportsSettle(ok, hasSamples, TRUE)
  \/ \E ok \in BOOLEAN : InitEvalScopeSettle(ok)
  \/ \E ok \in BOOLEAN : AudioClickSettle(ok)
  \/ \E ok \in BOOLEAN : AudioSynthSettle(ok)
  \/ DirtAfterAudio
  \/ \E ok \in BOOLEAN : DirtSamplesSettle(ok)
  \/ Evaluate(<<"s">>)
  \/ \E c \in 1..MaxInvocations : EvaluateAfterReady(c)
  \/ \E c \in 1..MaxInvocations, ok \in BOOLEAN : EvaluateSettle(c, ok)
  \/ Start
  \/ \E c \in 1..MaxInvocations : StartAfterInit(c)
  \/ \E c \in 1..MaxInvocations : StartAfterAudio(c)
  \/ \E c \in 1..MaxInvocations, ok \in BOOLEAN : StartAfterSamples(c, ok)
  \/ \E next \in QuietReplStates \cup {[NoReplState EXCEPT !.evalError = ErrorValue("eval")]} :
       HandleStateUpdate(next)

ErrorSpec == Init /\ [][ErrorNext]_vars

ReregisterSpec == Init /\ [][ReregisterNext]_vars

RoutingNext ==
  \E e \in 1..MaxEngines :
    \/ ScopeEngineReady(e)
    \/ SetScopeContainer(e)
    \/ \E ok \in BOOLEAN : ScopeAfterImport(e, ok)
    \/ ScopeEnsureAudio(e)
    \/ \E ok \in BOOLEAN : ScopeAudioSettle(e, ok)

RoutingSpec == Init /\ [][RoutingNext]_vars

ResolverNext ==
  \/ \E input \in GithubInputs : ResolveGithubSource(input)
  \/ \E i \in DOMAIN requests, status \in StatusInputs : BranchResponse(i, status)
  \/ \E i \in DOMAIN requests, body \in JsonBodies : BranchBody(i, body)
  \/ \E source \in {input \in GithubInputs : ~input.malformed /\ input.ref # ""} :
       FetchGithubTreeEntries(source)
  \/ \E i \in DOMAIN requests, status \in StatusInputs : TreeResponse(i, status)
  \/ \E i \in DOMAIN requests, body \in JsonBodies : TreeBody(i, body)

ResolverSpec == Init /\ [][ResolverNext]_vars

BridgeNext ==
  \/ \E pack \in PendingPacks : SavePendingSamplePack(pack)
  \/ MountWorkspace
  \/ \E l \in 1..MaxConsumes : UnmountWorkspace(l)

BridgeSpec == Init /\ [][BridgeNext]_vars
RegistrySpec == Init /\ [][RegistryNext]_vars

\* the output hook and its decrement timers, without and with stop()
PlaybackSpec == Init /\ [][PlaybackNext]_vars
HighlightSpec == Init /\ [][HighlightNext]_vars

\* the instances of one process and their init() and evaluate() calls
ProcessSpec == Init /\ [][ProcessNext]_vars

\* the snapshot and its subscribers
ObserverSpec == Init /\ [][ObserverNext]_vars

\* one instance under callers of evaluate() during playback
EvaluateSpec == Init /\ [][EvaluateNext]_vars

\* one instance under everything that shares the audio unlock and the
\* bootstrap sample-pack load
SharedSpec == Init /\ [][SharedNext]_vars

\* one instance under callers of evaluate(), start(), setTempo() and
\* loadSampleBank()
FacadeSpec == Init /\ [][FacadeNext]_vars

\* the registry with its loads, the bootstrap and the audio unlock
LoadSpec == Init /\ [][LoadNext]_vars

(***************************************************************************)
(* Claims about the loads (LoadSpec)                                       *)
(***************************************************************************)
\* the invocations of performSampleBankLoad whose call to the samples
\* primitive is outstanding
OutstandingSamplesCalls == {l \in DOMAIN loads : loads[l].pc = "samples"}

\* the invocations of performSampleBankLoad that have settled
SettledLoads == {l \in DOMAIN loads : loads[l].pc \in {"resolved", "rejected"}}

\* C1: loads are serialized per bank id: at any time at most one call to the
\* samples primitive is outstanding for one bank id, whatever the interleaving
\* of load, register and remove calls.
C1_OneOutstandingCallPerBank ==
  \A i \in OutstandingSamplesCalls, j \in OutstandingSamplesCalls :
    loads[i].id = loads[j].id => i = j

\* C10: once a load has settled, whichever way it ended, the in-flight promise
\* entry of its bank id no longer points at it, so the next load request for
\* the id starts a new load.
C10_SettledLoadLeavesNoPromise ==
  \A l \in SettledLoads :
    ~(loads[l].id \in DOMAIN sampleBankPromises /\ sampleBankPromises[loads[l].id] = l)

(***************************************************************************)
(* Claims about the registry (RegistrySpec)                                *)
(***************************************************************************)
RegistryIds(reg) == {reg[i].id : i \in DOMAIN reg}

\* the id a source's derived id gets with the suffix n
SuffixedId(source, n) ==
  normaliseSampleBankId(inferSampleBankIdFromSource(source) \o <<"-">> \o NatToStr(n))

\* the derived id of the source is held by a bank of another source
HeldByOtherSource(reg, source) ==
  \E i \in DOMAIN reg :
    /\ reg[i].id = normaliseSampleBankId(inferSampleBankIdFromSource(source))
    /\ reg[i].source # source

\* what a registration of the source without an explicit id must do to reg
KeepsOtherSources(reg, after, source) ==
  /\ \A i \in DOMAIN reg :
       reg[i].source # source => i \in DOMAIN after /\ after[i] = reg[i]
  /\ HeldByOtherSource(reg, source) =>
       /\ Len(after) = Len(reg) + 1
       /\ after[Len(after)].source = source
       /\ \E n \in 2..(Len(reg) + 2) :
            /\ after[Len(after)].id = SuffixedId(source, n)
            /\ SuffixedId(source, n) \notin RegistryIds(reg)
            /\ \A m \in 2..(n - 1) : SuffixedId(source, m) \in RegistryIds(reg)

\* C2: from any reachable registry, a registration without an explicit id
\* leaves every entry of another source as it was, and when the derived id is held by a bank of another
\* source it appends the bank under the first unused suffixed id.
C2_NoIdNeverReplacesOtherSource ==
  \A source \in RegistrySources, options \in RegistryOptions :
    ~Truthy(options.id) =>
      KeepsOtherSources(sampleBankRegistry,
                        registerSampleBank(sampleBankRegistry, source, options).registry,
                        source)

\* three banks of three sources hold the derived id and its suffixes 2 and 3
C2_Witness ==
  /\ Len(sampleBankRegistry) = 3
  /\ sampleBankRegistry[1].id = <<"b">>
  /\ sampleBankRegistry[2].id = <<"b", "-", "2">>
  /\ sampleBankRegistry[3].id = <<"b", "-", "3">>
  /\ \A i \in 1..3, j \in 1..3 :
       i # j => sampleBankRegistry[i].source # sampleBankRegistry[j].source

\* C3: from any reachable registry, registering a source twice without an
\* explicit id returns the same id both times and adds no second entry.
C3_RegisterTwiceSameEntry ==
  \A source \in RegistrySources :
    LET first == registerSampleBank(sampleBankRegistry, source, NoOptions)
        second == registerSampleBank(first.registry, source, NoOptions)
    IN /\ second.state.id = first.state.id
       /\ Len(second.registry) = Len(first.registry)

\* options that set the id and the baseUrl and nothing else
OnlyBaseUrl(options) ==
  /\ options.id # Undefined
  /\ options.baseUrl # Undefined
  /\ options = [NoOptions EXCEPT !.id = options.id, !.baseUrl = options.baseUrl]

\* C17: registering a registered bank again under its id with only a baseUrl
\* leaves the tag and the bankPrefix of the bank as they were, whatever they
\* were.
C17_BaseUrlUpdateKeepsTagAndPrefix ==
  [][\A source \in RegistrySources, options \in RegistryOptions :
       LET id == normaliseSampleBankId(options.id)
       IN /\ OnlyBaseUrl(options)
          /\ RegHas(sampleBankRegistry, id)
          /\ RegGet(sampleBankRegistry, id).source = source
          /\ RegisterSampleBank(source, options)
          => /\ RegGet(sampleBankRegistry', id).meta.tag =
                  RegGet(sampleBankRegistry, id).meta.tag
             /\ RegGet(sampleBankRegistry', id).meta.bankPrefix =
                  RegGet(sampleBankRegistry, id).meta.bankPrefix]_vars

(***************************************************************************)
(* Claims about the active ranges (HighlightSpec, PlaybackSpec)            *)
(***************************************************************************)
HapRanges == {Range1020, Range05}

InActiveLocations(st, range) ==
  \E i \in DOMAIN st.activeLocations : st.activeLocations[i] = range

\* the reference count the multiset holds for a range, 0 when it has no entry
CountOf(map, range) ==
  IF ActiveIndex(map, ActiveKey(range)) = 0 THEN 0
  ELSE map[ActiveIndex(map, ActiveKey(range))].count

\* the releases of a range that pending timers still hold
PendingReleases(range) ==
  {p \in PendingTimers \X (1..2) :
     p[2] \in DOMAIN timers[p[1]].keys /\ timers[p[1]].keys[p[2]] = ActiveKey(range)}

\* C4: stop() leaves the multiset and activeLocations empty whatever timers
\* are pending, and a timer that fires never adds a range to activeLocations.
C4_StopClearsAndTimersAddNothing ==
  [][/\ Stop => (activeMap' = <<>> /\ state'.activeLocations = <<>>)
     /\ \A i \in 1..MaxHaps :
          FireTimer(i) =>
            \A range \in HapRanges :
              InActiveLocations(state', range) => InActiveLocations(state, range)]_vars

\* the active ranges are empty while a decrement timer of an event that
\* highlighted a range is still pending, and another such timer has fired
C4_Witness ==
  /\ activeMap = <<>>
  /\ state.activeLocations = <<>>
  /\ \E i \in PendingTimers : timers[i].keys # <<>>
  /\ \E i \in DOMAIN timers : timers[i].fired /\ timers[i].keys # <<>>

\* C5: without stop(), the count of a range is the number of its releases
\* that pending timers hold, and the range is in activeLocations exactly
\* while that number is above 0: from the first increment until the last
\* decrement, an earlier decrement only lowering the count.
C5_ActiveUntilLastDecrement ==
  \A range \in HapRanges :
    /\ CountOf(activeMap, range) = Cardinality(PendingReleases(range))
    /\ InActiveLocations(state, range) <=> PendingReleases(range) # {}

\* two events registered at time 0 for the range (10, 20), lasting 0.1 s and
\* 0.3 s: the shorter one's timer has fired, the longer one's is pending and
\* the range is still active
C5_Witness ==
  /\ \E i \in DOMAIN timers, j \in PendingTimers :
       /\ timers[i].fired
       /\ timers[i].fireAt = 110
       /\ timers[j].fireAt = 310
       /\ timers[i].keys[1] = ActiveKey(Range1020)
       /\ timers[j].keys[1] = ActiveKey(Range1020)
  /\ now >= 110
  /\ InActiveLocations(state, Range1020)
  /\ CountOf(activeMap, Range1020) = 1

\* C6: a range is in activeLocations iff its count in the multiset is above
\* 0, no entry of the multiset has a count of 0 or less, and activeLocations
\* lists each active range once.
C6_ActiveIffCounted ==
  /\ \A range \in HapRanges :
       InActiveLocations(state, range) <=> CountOf(activeMap, range) > 0
  /\ \A i \in DOMAIN activeMap : activeMap[i].count > 0
  /\ \A i \in DOMAIN state.activeLocations, j \in DOMAIN state.activeLocations :
       state.activeLocations[i] = state.activeLocations[j] => i = j
  /\ \A i \in DOMAIN state.activeLocations : state.activeLocations[i] \in HapRanges

\* a timer has released (0, 5) to count 0 while (10, 20) is still counted
\* twice
C6_Witness ==
  /\ \E i \in DOMAIN timers : timers[i].fired /\ Len(timers[i].keys) = 2
  /\ CountOf(activeMap, Range1020) = 2
  /\ state.activeLocations = <<Range1020>>

(***************************************************************************)
(* Claims about init() over several instances (ProcessSpec)                *)
(***************************************************************************)
\* C7: init() is idempotent per instance: however its init() and evaluate()
\* calls overlap, the evaluation-scope wiring of an instance runs at most
\* once.
C7_BootstrapAtMostOncePerInstance ==
  \A e \in DOMAIN engines : engines[e].evalScopeCalls <= 1

\* C8: once an init() call on an instance has resolved, the instance has its
\* REPL and isReady is true, and no evaluate() on it throws that the REPL is
\* not ready.
C8_ResolvedInitHasRepl ==
  /\ \A c \in DOMAIN calls :
       calls[c].pc = "resolved" =>
         engines[calls[c].engine].repl /\ engines[calls[c].engine].isReady
  /\ \A c \in DOMAIN calls : calls[c].pc # "not ready"

RejectingInvocations ==
  {c \in DOMAIN invocations :
     invocations[c].pc # "rejected" /\ invocations'[c].pc = "rejected"}

\* the bank loads that reject in this step
RejectingLoads ==
  {l \in DOMAIN loads : loads[l].pc # "rejected" /\ loads'[l].pc = "rejected"}

\* C11: when evaluate() or start() rejects, state.error holds the message of
\* the rejection at that moment, and when a bank load rejects, the bank's
\* status is 'error' and its error is set at that moment.
C11_RejectionIsRecorded ==
  [][/\ \A c \in RejectingInvocations : state'.error = invocations'[c].error
     /\ \A l \in RejectingLoads :
          /\ RegHas(sampleBankRegistry', loads[l].id)
          /\ RegGet(sampleBankRegistry', loads[l].id).status = "error"
          /\ RegGet(sampleBankRegistry', loads[l].id).error # Undefined]_vars

\* code that consists of white space only
WhiteSpaceOnly(code) == \A i \in DOMAIN code : code[i] \in {" ", "\t", "\n"}

C15_TempoIsClamped ==
  [][/\ ~state'.bpm.isNaN
     /\ 40 <= state'.bpm.value
     /\ state'.bpm.value <= 240
     /\ \A x \in TempoInputs :
          SetTempo(x) /\ ~x.isNaN =>
            state'.bpm.value = IF x.value < 40 THEN 40
                               ELSE IF x.value > 240 THEN 240 ELSE x.value]_vars

(***************************************************************************)
(* Claims about failed and orphaned bank loads (LoadSpec)                  *)
(***************************************************************************)
\* the bank loads that fail in this step: the load rejects, or the audio
\* unlock it is waiting for throws
FailingLoads ==
  {l \in DOMAIN loads :
     \/ loads[l].pc # "rejected" /\ loads'[l].pc = "rejected"
     \/ /\ loads[l].pc = "audio"
        /\ audioInitPromise \notin AudioRejections
        /\ audioInitPromise' \in AudioRejections}

\* this step leaves the status, error, loadedAt and meta of every bank other
\* than id as they were
OtherBanksUnchanged(id) ==
  \A i \in DOMAIN sampleBankRegistry :
    LET before == sampleBankRegistry[i]
        after == RegGet(sampleBankRegistry', before.id)
    IN before.id # id =>
         /\ RegHas(sampleBankRegistry', before.id)
         /\ after.status = before.status
         /\ after.error = before.error
         /\ after.loadedAt = before.loadedAt
         /\ after.meta = before.meta

\* C12: a failed load of a bank leaves the global state.error unchanged and
\* leaves the status, error, loadedAt and meta of every other registered bank
\* unchanged.
C12_FailedLoadIsScoped ==
  [][\A l \in FailingLoads :
       /\ state'.error = state.error
       /\ OtherBanksUnchanged(loads[l].id)]_vars

\* the loads in flight whose tracking is gone: the promise entry of the
\* load's bank id has been deleted, or belongs to a later load
OrphanedLoads ==
  {l \in DOMAIN loads :
     /\ loads[l].pc \in {"init", "audio", "samples"}
     /\ ~(loads[l].id \in DOMAIN sampleBankPromises /\ sampleBankPromises[loads[l].id] = l)}

\* C13: removeSampleBank(id) deletes the registry entry and the in-flight
\* tracking of the id, and the later resolution or rejection of a load that
\* was in flight for the id changes neither the registry nor any field of the
\* snapshot, whatever was called after the removal.
C13_OrphanedLoadChangesNothing ==
  [][/\ \A id \in IdInputs :
          RemoveSampleBank(id) =>
            /\ ~RegHas(sampleBankRegistry', normaliseSampleBankId(id))
            /\ normaliseSampleBankId(id) \notin DOMAIN sampleBankPromises'
     /\ \A l \in OrphanedLoads :
          loads'[l].pc \in {"resolved", "rejected"} =>
            /\ sampleBankRegistry' = sampleBankRegistry
            /\ state' = state]_vars

(***************************************************************************)
(* Claims about the shared unlock and bootstrap load (SharedSpec)          *)
(***************************************************************************)
\* C14: whatever start(), the output hook, beforeStart and the bank loads
\* call and however their calls overlap, at most one execution of the audio
\* unlock and at most one bootstrap samples call is in flight at any time.
C14_OneUnlockOneBootstrapInFlight ==
  /\ outstanding.unlock <= 1
  /\ outstanding.bootstrap <= 1

\* a start(), an output hook and a bank load wait for the one unlock that is
\* in flight
C14_Witness ==
  /\ outstanding.unlock = 1
  /\ \E c \in DOMAIN invocations : invocations[c].pc = "ensureAudio"
  /\ \E h \in DOMAIN haps : haps[h].pc = "ensureAudio"
  /\ \E l \in DOMAIN loads : loads[l].pc = "audio"

\* the loads that have raised the loading counter and not yet lowered it:
\* the bank loads between their increment and their finally block, and the
\* bootstrap sample-pack load while it runs
CountedBankLoads == {l \in DOMAIN loads : loads[l].pc \in {"audio", "samples"}}
CountedBootstrapLoads == IF samplePc \in {"audioInitPromise", "samples"} THEN 1 ELSE 0

\* C18: the loading counter is never negative, equals the number of loads
\* (bootstrap load and bank loads) that have incremented it and not yet
\* finished, and state.isLoadingSamples is true exactly when it is above 0.
C18_CounterCountsRunningLoads ==
  /\ sampleLoadingCount >= 0
  /\ sampleLoadingCount = Cardinality(CountedBankLoads) + CountedBootstrapLoads
  /\ state.isLoadingSamples = (sampleLoadingCount > 0)

\* the bootstrap load and a bank load are running at once
C18_Witness ==
  /\ sampleLoadingCount = 2
  /\ samplePc = "samples"
  /\ \E l \in CountedBankLoads : loads[l].pc = "samples"

(***************************************************************************)
(* Claims about the snapshot and its subscribers (ObserverSpec)            *)
(***************************************************************************)
\* this step replaces this.state by a new snapshot
NewSnapshot == snapshots' # snapshots

\* what subscribe, emit and unsubscribe owe to the listeners f for which
\* expects[f] holds, in one step: the snapshot of the moment on subscribing,
\* each new snapshot once and last while expected, nothing otherwise
ListenersServed(expects) ==
  \A f \in 1..MaxListeners :
    LET before == subscribers[f].received
        after == subscribers'[f].received
    IN IF Subscribe(f) THEN after = Append(before, Len(snapshots))
       ELSE IF NewSnapshot /\ expects[f] THEN after = Append(before, Len(snapshots'))
       ELSE after = before

\* C19 as stated: subscribe(listener) calls the listener once with the
\* current snapshot; from then on the listener is called with every new
\* snapshot, in order, until a function returned by subscribe is called, and
\* is not called afterwards.
C19_DeliveredUntilUnsubscribed ==
  [][ListenersServed([f \in 1..MaxListeners |-> subscribers[f].open])]_vars

\* C19, amended: ... until a function returned by subscribe is called or
\* dispose() is called, and is not called afterwards.
C19_DeliveredUntilUnsubscribedOrDisposed ==
  [][ListenersServed([f \in 1..MaxListeners |->
                        subscribers[f].open /\ ~subscribers[f].cleared])]_vars

\* one listener has been called with the snapshot at its subscription and
\* the two that followed; another, unsubscribed before them, with the first
\* only
C19_Witness ==
  \E f \in 1..MaxListeners, g \in 1..MaxListeners :
    /\ subscribers[f].open /\ ~subscribers[f].cleared
    /\ subscribers[f].received = <<1, 2, 3>>
    /\ ~subscribers[g].open
    /\ subscribers[g].received = <<1>>

\* some key of the update differs from the current value: by value for
\* numbers, strings and booleans, always for an array, which is a new object
Differs(u) ==
  \E key \in u.keys :
    key \in {"miniLocations", "activeLocations", "sampleBanks"} \/ state[key] # u.values[key]

\* C20: setState(update) replaces the snapshot and calls the listeners, each
\* once, only if a key of the update differs from the current value;
\* otherwise the snapshot object stays and nobody is called; and no snapshot
\* object is modified once it exists.
C20_ChangedUpdatesOnly ==
  [][/\ \A i \in DOMAIN snapshots : snapshots'[i] = snapshots[i]
     /\ \A u \in StateUpdates :
          SetState(u) =>
            IF Differs(u)
              THEN /\ state' = [key \in DOMAIN state |->
                                  IF key \in u.keys THEN u.values[key] ELSE state[key]]
                   /\ snapshots' = Append(snapshots, state')
                   /\ \A f \in 1..MaxListeners :
                        subscribers'[f].received =
                          IF \E i \in DOMAIN listeners : listeners[i] = f
                            THEN Append(subscribers[f].received, Len(snapshots'))
                            ELSE subscribers[f].received
              ELSE /\ state' = state
                   /\ snapshots' = snapshots
                   /\ subscribers' = subscribers]_vars

\* two listeners have been called with a snapshot that differs from the one
\* before it
C20_Witness ==
  /\ Len(listeners) = 2
  /\ Len(snapshots) = 3
  /\ snapshots[3] # snapshots[2]
  /\ state = snapshots[3]
  /\ \A f \in 1..MaxListeners :
       subscribers[f].received # <<>> /\
       subscribers[f].received[Len(subscribers[f].received)] = 3

(***************************************************************************)
(* Claims about the audio routing patch (RoutingSpec)                      *)
(***************************************************************************)
\* the splitters a connection to the destination passes on its way
RECURSIVE Downstream(_, _)
Downstream(nodes, n) ==
  IF n = 0 THEN nodes
  ELSE Downstream(nodes \cup {c[2] : c \in {d \in graph : d[1] \in nodes}}, n - 1)
SplittersOnRoute ==
  LET first == ConnectTarget(connect, Destination)
  IN  Downstream({first}, Cardinality(graph)) \ {Destination}

\* C21: whatever the number of instances with a visual surface and the order
\* of their audio unlocks, AudioNode.prototype.connect is wrapped at most
\* once, and a connection to the destination passes one splitter at most.
C21_ConnectPatchedOnce ==
  /\ Len(connect) <= 1
  /\ Cardinality(SplittersOnRoute) <= 1

(***************************************************************************)
(* Claims about the remote source resolver (ResolverSpec)                  *)
(***************************************************************************)
\* the step starts a resolution, and that resolution fetches the repo info
StartsResolution == Len(requests') = Len(requests) + 1
IssuesLookup == lookups' # lookups

\* earlier resolutions of the same repo that gave no ref
EarlierWithoutRef(repo) ==
  {j \in DOMAIN requests :
     requests[j].fn = "resolve" /\ requests[j].repo = repo /\ requests[j].ref = ""
       /\ requests[j].error # ParseError}

LookupOnlyWhenNeeded(done) ==
  /\ IssuesLookup => StartsResolution
  /\ StartsResolution /\ IssuesLookup =>
       LET r == requests'[Len(requests')]
       IN  /\ r.fn = "resolve" /\ r.ref = ""
           /\ lookups' = [lookups EXCEPT ![r.repo] = @ + 1]
           /\ ~\E j \in EarlierWithoutRef(r.repo) : requests[j].pc \in done

\* C22 as stated: once a resolution without ref for owner/repo has been
\* started, a second one for the same owner/repo issues no branch lookup;
\* a resolution with an explicit ref issues none at all.
C22_NoLookupOnceStarted ==
  [][LookupOnlyWhenNeeded({"fetch", "json", "resolved", "rejected"})]_vars

\* C22, amended: once a resolution without ref for owner/repo has resolved,
\* a later one for the same owner/repo issues no branch lookup; a resolution
\* with an explicit ref issues none at all.
C22_NoLookupOnceResolved == [][LookupOnlyWhenNeeded({"resolved"})]_vars

C22_Witness ==
  \E i, j \in DOMAIN requests :
    /\ i < j
    /\ \A k \in {i, j} : requests[k].fn = "resolve" /\ requests[k].ref = ""
                          /\ requests[k].pc = "resolved" /\ requests[k].repo = "o/r"
    /\ lookups["o/r"] = 1
    /\ requests[j].value = requests[i].value
    /\ \E k \in DOMAIN requests :
         requests[k].fn = "resolve" /\ requests[k].ref = "dev" /\ requests[k].value = "dev"

\* what a caller can tell the errors apart by: the message
Distinguishable(a, b) == a.text # b.text \/ a.status # b.status

TreeStatusHandled(i, status) ==
  LET after == requests'[i]
  IN  /\ status = 403 =>
           after.pc = "rejected" /\ after.error = RateLimitError
      /\ status # 403 /\ ~ResponseOk(status) =>
           /\ after.pc = "rejected"
           /\ after.error.status = status
           /\ Distinguishable(after.error, RateLimitError)
      /\ ResponseOk(status) => after.pc = "json"

TreeBodyHandled(i, body) ==
  LET after == requests'[i]
      hasArray == body.kind = "object" /\ body.tree = "array"
  IN  /\ after.pc = "resolved" <=> hasArray
      /\ hasArray => after.value = "tree"
      /\ ~hasArray =>
           /\ after.pc = "rejected"
           /\ Distinguishable(after.error, RateLimitError)
           /\ \A status \in StatusInputs : Distinguishable(after.error, TreeError(status))
      /\ body.kind = "object" /\ body.tree # "array" => after.error = ProtocolError

\* C23: fetchGithubTreeEntries raises the rate-limit error on 403; on any
\* other non-2xx status it raises an error that carries the status and differs
\* from the rate-limit error; on a 2xx body without a tree array it raises the
\* protocol error, which differs from both; it returns the tree only for a 2xx
\* response whose body has the array.
C23_TreeErrorsAreDistinguishable ==
  [][/\ \A i \in DOMAIN requests, status \in StatusInputs :
          TreeResponse(i, status) => TreeStatusHandled(i, status)
     /\ \A i \in DOMAIN requests, body \in JsonBodies :
          TreeBody(i, body) => TreeBodyHandled(i, body)
     /\ \A i \in DOMAIN requests :
          requests[i].fn = "tree" /\ requests'[i].pc = "resolved" =>
            requests[i].pc \in {"json", "resolved"}]_vars

C23_Witness ==
  \E i, j, k \in DOMAIN requests :
    /\ \A n \in {i, j, k} : requests[n].fn = "tree"
    /\ requests[i].error = RateLimitError
    /\ requests[j].error = TreeError(500)
    /\ requests[k].pc = "resolved" /\ requests[k].value = "tree"

(***************************************************************************)
(* Claims about the pending import bridge (BridgeSpec)                     *)
(***************************************************************************)
\* the consumePendingSamplePack() calls of the step, in order
NewConsumes == SubSeq(consumed', Len(consumed) + 1, Len(consumed'))

SaveHandsOverOnce(pack) ==
  /\ Len(NewConsumes) = Len(importListeners)
  /\ IF importListeners = <<>>
       THEN localStorage' # NoItem /\ JSONparse(localStorage') = pack
       ELSE /\ NewConsumes[1] = [by |-> importListeners[1], pack |-> <<pack>>]
            /\ \A k \in 2..Len(NewConsumes) : NewConsumes[k].pack = <<>>
            /\ localStorage' = NoItem
            /\ imports' = Append(imports, pack)

MountConsumesWhatIsStored ==
  /\ Len(NewConsumes) = 1
  /\ localStorage' = NoItem
  /\ IF localStorage = NoItem
       THEN NewConsumes[1].pack = <<>> /\ imports' = imports
       ELSE NewConsumes[1].pack = <<JSONparse(localStorage)>>

\* C24: after savePendingSamplePack(p) the first consumePendingSamplePack()
\* returns p and clears the entry, every further consume returns null until
\* the next save, and a later save replaces a payload nobody consumed.
C24_ConsumedExactlyOnce ==
  [][/\ \A pack \in PendingPacks :
          SavePendingSamplePack(pack) => SaveHandsOverOnce(pack)
     /\ MountWorkspace => MountConsumesWhatIsStored
     /\ (\A pack \in PendingPacks : ~SavePendingSamplePack(pack)) /\ ~MountWorkspace
          => localStorage' = localStorage /\ consumed' = consumed]_vars

C24_Witness ==
  /\ localStorage = NoItem
  /\ Len(imports) = 2 /\ imports[1] # imports[2]
  /\ \E i, j, k \in DOMAIN consumed :
       /\ i < j /\ j < k
       /\ consumed[i].pack = <<imports[1]>>
       /\ consumed[j].pack = <<>> /\ consumed[j].by # consumed[i].by
       /\ consumed[k].pack = <<imports[2]>>

(***************************************************************************)
(* Claims about the per-event output hook (HighlightSpec)                  *)
(***************************************************************************)
\* where a hook invocation may go from where it stands
HookSuccessors(pc) ==
  CASE pc = "ensureAudio" -> {"ensureAudio", "loadSamples", "loadSamples returned", "rejected"}
    [] pc \in {"loadSamples", "loadSamples returned"} -> {pc, "output", "rejected"}
    [] OTHER -> {pc}

\* the step on which invocation h calls the audio-output primitive
HookOutputs(h) == haps[h].pc # "output" /\ haps'[h].pc = "output"

HookInOrder(h, bootstrapLoaded) ==
  /\ haps'[h].pc \in HookSuccessors(haps[h].pc)
  /\ HookOutputs(h) =>
       /\ audioInitPromise = "resolved" /\ state.audioUnlocked
       /\ bootstrapLoaded
       /\ \A i \in DOMAIN haps[h].locations :
            /\ CountOf(activeMap', haps[h].locations[i]) >= 1
            /\ InActiveLocations(state', haps[h].locations[i])

\* C25 as stated: every hook invocation waits for the audio unlock, then for
\* the bootstrap sample-pack load, then registers the event's locations as
\* active and calls the audio-output primitive; the primitive is never called
\* before audio is unlocked and the bootstrap pack is loaded.
C25_OutputAfterUnlockAndBootstrap ==
  [][\A h \in DOMAIN haps : HookInOrder(h, state.samplesLoaded)]_vars

\* C25, amended: the same, the bootstrap pack being loaded wherever the
\* runtime has a samples primitive; without one the hook goes on without it.
C25_OutputAfterUnlockAndBootstrapIfAny ==
  [][\A h \in DOMAIN haps :
       HookInOrder(h, webaudio.samples => state.samplesLoaded)]_vars

C25_Witness ==
  /\ webaudio.samples /\ state.samplesLoaded /\ state.audioUnlocked
  /\ \E h \in DOMAIN haps : haps[h].pc = "output"
  /\ state.activeLocations # <<>>

(***************************************************************************)
(* Claims about the status of a bank (LoadSpec, RegistrySpec)              *)
(***************************************************************************)
StatusMoveAllowed(before, after) ==
  \/ after = before
  \/ before \in {"idle", "ready", "error"} /\ after = "loading"
  \/ before = "loading" /\ after \in {"ready", "error"}

\* C26 (its first half, and leaving aside the reset to idle of a bank that is
\* registered again with another source): the status of a registered bank
\* only moves idle/ready/error -> loading and loading -> ready or error.
C26_StatusMovesThroughLoading ==
  [][\A i \in DOMAIN sampleBankRegistry, j \in DOMAIN sampleBankRegistry' :
       sampleBankRegistry[i].id = sampleBankRegistry'[j].id =>
         \/ StatusMoveAllowed(sampleBankRegistry[i].status, sampleBankRegistry'[j].status)
         \/ /\ sampleBankRegistry'[j].source # sampleBankRegistry[i].source
            /\ sampleBankRegistry'[j].status = "idle"]_vars

\* what a registration does to the entries whose id it finds
KeepsOrResets(before, after) ==
  IF after.source = before.source
    THEN /\ after.status = before.status
         /\ after.error = before.error
         /\ after.loadedAt = before.loadedAt
    ELSE /\ after.status = "idle"
         /\ after.error = Undefined
         /\ after.loadedAt = <<>>

\* C27: registering an existing id with an unchanged source preserves the
\* entry's status, error and loadedAt; registering it with a changed source
\* resets status to idle and error and loadedAt to undefined.
C27_RegisterKeepsOrResets ==
  [][\A source \in ReregisterSources, options \in ReregisterOptions :
       RegisterSampleBank(source, options) =>
         \A i \in DOMAIN sampleBankRegistry, j \in DOMAIN sampleBankRegistry' :
           sampleBankRegistry[i].id = sampleBankRegistry'[j].id =>
             KeepsOrResets(sampleBankRegistry[i], sampleBankRegistry'[j])]_vars

\* a bank that was loaded and then registered with another source, and a
\* bank that kept what a load left
C27_Witness ==
  \E i \in DOMAIN sampleBankRegistry :
    /\ sampleBankRegistry[i].id = <<"b">>
    /\ sampleBankRegistry[i].source = SourceCB
    /\ sampleBankRegistry[i].status = "idle"
    /\ sampleBankRegistry[i].loadedAt = <<>>
    /\ \E l \in DOMAIN loads : loads[l].id = <<"b">> /\ loads[l].pc = "resolved"

\* C28: after every registry mutation (register, remove, load status change,
\* metadata update) state.sampleBanks is the sequence of the registry's
\* entries in insertion order, with unique ids.
C28_SampleBanksMirrorRegistry ==
  /\ state.sampleBanks = sampleBankRegistry
  /\ \A i \in DOMAIN sampleBankRegistry, j \in DOMAIN sampleBankRegistry :
       sampleBankRegistry[i].id = sampleBankRegistry[j].id => i = j

\* a bank was removed after its load began, and a load has changed the
\* status and the metadata of a bank that is registered
C28_Witness ==
  /\ state.sampleBanks = sampleBankRegistry
  /\ \E i \in DOMAIN sampleBankRegistry :
       /\ sampleBankRegistry[i].status = "ready"
       /\ sampleBankRegistry[i].meta.baseUrl # Undefined
  /\ \E l \in DOMAIN loads : ~RegHas(sampleBankRegistry, loads[l].id)

\* the delivered set differs from the current one in length, order or bounds
RangesDiffer(current, items) ==
  \/ Len(items) # Len(current)
  \/ \E i \in DOMAIN items :
       items[i][1] # current[i][1] \/ items[i][2] # current[i][2]

\* C29: a state-update callback replaces miniLocations only if its set
\* differs from the current one in length, order or bounds; an element-wise
\* equal set, or a callback without a location array, leaves the value
\* alone (and publishes no snapshot when the flags did not change either);
\* after a callback with a set miniLocations has the bounds of that set, and
\* nothing but a callback changes miniLocations.
C29_MiniLocationsFollowCallback ==
  [][/\ \A next \in ReplStates :
          HandleStateUpdate(next) =>
            LET delivered == next.miniLocations
                replaced == /\ delivered.isArray
                            /\ RangesDiffer(state.miniLocations, delivered.items)
                update == handleStateUpdate(state, next)
            IN /\ "miniLocations" \in DOMAIN update <=> replaced
               /\ ~replaced =>
                    /\ state'.miniLocations = state.miniLocations
                    /\ (/\ state.isPlaying = next.started
                        /\ state.isEvaluating = next.pending
                        /\ state.error = update.error) => snapshots' = snapshots
               /\ delivered.isArray =>
                    /\ Len(state'.miniLocations) = Len(delivered.items)
                    /\ \A i \in DOMAIN delivered.items :
                         /\ state'.miniLocations[i][1] = delivered.items[i][1]
                         /\ state'.miniLocations[i][2] = delivered.items[i][2]
     /\ state'.miniLocations # state.miniLocations =>
          \E next \in ReplStates : HandleStateUpdate(next)]_vars

\* a set was delivered and replaced the empty one, and a later callback,
\* with the same set or without one, reached a subscriber with it in place
C29_Witness ==
  /\ Len(snapshots) = 3
  /\ snapshots[2].miniLocations = <<Range1020>>
  /\ snapshots[3].miniLocations = <<Range1020>>
  /\ \E f \in DOMAIN subscribers : Len(subscribers[f].received) >= 2

\* C30: after dispose() the subscriber set and the active-range multiset are
\* empty, whatever happens afterwards (pending decrement timers firing,
\* outstanding bank loads settling, scheduler callbacks).
C30_EmptyAfterDispose ==
  disposed => listeners = <<>> /\ activeMap = <<>>

\* the part of C30 about listeners: no listener subscribed before dispose()
\* is called after it
NoDeliveryAfterDispose ==
  [][disposed => listeners' = <<>> /\ subscribers' = subscribers]_vars

\* C31: an HTTP 403 received during resolution, on the default-branch lookup
\* or on the tree fetch, raises the rate-limit error and not the generic
\* fetch failure.
C31_RateLimitOnEveryFetch ==
  [][\A i \in DOMAIN requests :
       /\ BranchResponse(i, 403) =>
            requests'[i].pc = "rejected" /\ requests'[i].error = RateLimitError
       /\ TreeResponse(i, 403) =>
            requests'[i].pc = "rejected" /\ requests'[i].error = RateLimitError]_vars

\* C32: after stop(), activeLocations stays empty until the scheduler
\* delivers a new event after the stop; an event handed to the output hook
\* before stop() that is still waiting for the audio unlock or the bootstrap
\* sample load does not make a range active after the stop.
C32_NoHighlightWhileStopped ==
  ~transport => state.activeLocations = <<>>

\* C33: active ranges never leak: for any interleaving of events, decrement
\* timers, stop() and dispose(), once every timer that was set has fired the
\* active-range multiset and activeLocations are empty.
C33_NoLeakOnceTimersFired ==
  PendingTimers = {} => activeMap = <<>> /\ state.activeLocations = <<>>

\* three events have registered ranges, the instance was disposed and every
\* timer has fired
C33_Witness ==
  /\ Len(timers) = 3
  /\ PendingTimers = {}
  /\ disposed
  /\ \E i \in DOMAIN timers : Len(timers[i].keys) = 2

\* the messages evaluate(), start() and the audio unlock record
RecordedErrors ==
  {ErrorMessage("evaluate failed"), ErrorMessage("start failed")}
    \cup {ErrorMessage(message) : message \in AudioRejections}

\* C34: between the moment an error is recorded by evaluate(), start() or the
\* audio unlock and the start of the next evaluate(), no scheduler
\* state-update callback that carries no error resets state.error.
C34_QuietUpdateKeepsError ==
  [][\A next \in QuietReplStates :
       HandleStateUpdate(next) /\ state.error \in RecordedErrors =>
         state'.error = state.error]_vars

\* C35: a decrement timer only releases the count its own event added, so a
\* range stays in activeLocations until the decrement of the event that
\* registered it has fired: a timer that fires never removes a range that is
\* active and for which a later timer is still pending.
C35_TimerReleasesOwnCount ==
  [][\A i \in DOMAIN timers :
       FireTimer(i) =>
         \A j \in PendingTimers \ {i} :
           \A k \in DOMAIN timers[j].keys :
             (j > i /\ ActiveIndex(activeMap, timers[j].keys[k]) # 0) =>
               /\ ActiveIndex(activeMap', timers[j].keys[k]) # 0
               /\ \E n \in DOMAIN state'.activeLocations :
                    ActiveKey(state'.activeLocations[n]) = timers[j].keys[k]]_vars

\* C36: a bank whose status is 'ready' has had a load of its current source
\* complete successfully: a load that resolves makes the entry of its id
\* 'ready' only if the entry still has the source that load fetched.
C36_ReadyMeansCurrentSourceLoaded ==
  [][\A l \in DOMAIN loads :
       LoadSamplesSettle(l, TRUE) =>
         \A i \in DOMAIN sampleBankRegistry' :
           (/\ sampleBankRegistry'[i].id = loads[l].id
            /\ sampleBankRegistry'[i].status = "ready") =>
             sampleBankRegistry'[i].source = loads[l].source]_vars

\* the snapshot is consistent about loading
LoadingConsistent(st) ==
  (\E i \in DOMAIN st.sampleBanks : st.sampleBanks[i].status = "loading") =>
    st.isLoadingSamples

\* C37: every snapshot delivered to a subscriber is self-consistent about
\* loading: whenever some bank in sampleBanks has status 'loading',
\* isLoadingSamples is true in that same snapshot.
C37_SnapshotsConsistentAboutLoading ==
  [][\A l \in DOMAIN loads :
       (LoadAfterInit(l) /\ loads'[l].pc = "audio") =>
         LET published == loadingSnapshots(sampleBankRegistry, state,
                                           sampleLoadingCount, loads[l].id)
         IN /\ published # <<>> => published[Len(published)] = state'
            /\ \A n \in DOMAIN published : LoadingConsistent(published[n])]_vars


\* C38: with overlapping evaluations, state.error reflects the evaluate()
\* that started last: when an evaluate() that started later has already
\* succeeded, the rejection of an earlier one leaves state.error as it was
C38_ErrorOfLatestEvaluate ==
  [][\A c \in DOMAIN invocations :
       (/\ EvaluateSettle(c, FALSE)
        /\ \E d \in DOMAIN invocations :
             /\ d > c
             /\ invocations[d].kind = "evaluate"
             /\ invocations[d].pc = "resolved") =>
         state'.error = state.error]_vars


\* C39: a failed audio unlock is recoverable: when start() or a bank load
\* reaches ensureAudio() after an earlier attempt has failed, the unlock
\* primitive runs again; and when start() reaches loadSamples() after the
\* bootstrap load has failed, the bootstrap load runs again
C39_FailedUnlockIsRetried ==
  [][/\ \A c \in DOMAIN invocations :
          (/\ StartAfterInit(c)
           /\ readyPromise = "resolved"
           /\ audioInitPromise \in AudioRejections) =>
            /\ audioInitPromise' = "pending"
            /\ outstanding'.unlock = outstanding.unlock + 1
     /\ \A l \in DOMAIN loads :
          (/\ LoadAfterInit(l)
           /\ loads'[l].pc = "audio"
           /\ audioInitPromise \in AudioRejections) =>
            /\ audioInitPromise' = "pending"
            /\ outstanding'.unlock = outstanding.unlock + 1
     /\ \A c \in DOMAIN invocations :
          (/\ StartAfterAudio(c)
           /\ audioInitPromise \notin AudioRejections
           /\ sampleLoadPromise = "rejected") =>
            sampleLoadPromise' = "pending"]_vars


\* C40: in every reachable state an engine that reports audioUnlocked has
\* not closed its audio context, so that a start() after dispose() cannot
\* rely on the cached unlock of a closed context
C40_UnlockedMeansContextOpen == state.audioUnlocked => ~contextClosed

====
